---- MODULE Spec2Model ----
(***************************************************************************)
(* Model of the rule-based dataset error detection of GetCleanData:        *)
(* tests/detect_correct.py (six checks over an in-memory table, collected  *)
(* by main into a JSON file) and tests/errors_counting_check.py (the       *)
(* independent counters), scripts/detect_errors_*.py, and the web service  *)
(* of app/main.py with the chat of app/chat.py.                            *)
(*                                                                         *)
(* A table is a pandas DataFrame with a RangeIndex: a set of column names  *)
(* and a sequence of rows; row i of the sequence carries index label i-1.  *)
(* A cell is a tagged value [kind, v]; a text is a tuple of one-character  *)
(* strings so that strip/split/lower are computed and not assumed.         *)
(***************************************************************************)
EXTENDS Integers, Sequences, FiniteSets, TLC

VARIABLES df, loaded, last, pc, all_messages, all_issues, json_file,
          app, LLM, store, sent, calls, files, response, returned, requests, overlaps,
          threads

\* the state of the detection scripts and the state of the web service
datavars == <<df, loaded, last, pc, all_messages, all_issues, json_file>>
appvars == <<app, LLM, store, sent, calls, files, response, returned, requests, overlaps,
          threads>>

vars == <<df, loaded, last, pc, all_messages, all_issues, json_file,
          app, LLM, store, sent, calls, files, response, returned, requests, overlaps,
          threads>>

(***************************************************************************)
(* Bounds of the model.                                                    *)
(***************************************************************************)
MaxRows == 2
MaxRowsMissing == 2
MaxRowsDup == 4
MaxRowsText == 1
MaxTextLen == 4
MaxRowsSupplier == 2
MaxRowsDrift == 4
MaxRowsNear == 3
MaxRowsStats == 4
MaxRequests == 3
MaxOverlaps == 1
MaxRowsSample == 7
MaxSampleRows == 6
MaxIssues == 2

(***************************************************************************)
(* Python / pandas values.                                                 *)
(***************************************************************************)
NaN == [kind |-> "nan", v |-> <<>>]
None == [kind |-> "None", v |-> <<>>]
NaT == [kind |-> "NaT", v |-> <<>>]
Str(s) == [kind |-> "str", v |-> s]
Num(n) == [kind |-> "int", v |-> n]
DateStr(h) == [kind |-> "date", v |-> h]
Timestamp(h) == [kind |-> "ts", v |-> h]
PyList(l) == [kind |-> "list", v |-> l]

isna(x) == x.kind \in {"nan", "NaT", "None"}

\* str.isspace() characters that occur in the modelled texts
Whitespace == {" ", "\t", "\n", "\r"}

\* ord() of the characters of the modelled texts
CharCode ==
  [c \in {"\t", " ", "A", "C", "F", "H", "L", "M", "N", "O", "P", "R", "T", "U", "X",
          "a", "b", "c", "d", "f", "h", "l", "m", "n", "o", "p", "r", "t", "u",
          "x"} |->
     CASE c = "\t" -> 9 [] c = " " -> 32
       [] c = "A" -> 65 [] c = "C" -> 67 [] c = "F" -> 70 [] c = "H" -> 72
       [] c = "L" -> 76 [] c = "M" -> 77 [] c = "N" -> 78 [] c = "O" -> 79
       [] c = "P" -> 80 [] c = "R" -> 82 [] c = "T" -> 84 [] c = "U" -> 85
       [] c = "X" -> 88
       [] c = "a" -> 97 [] c = "b" -> 98 [] c = "c" -> 99 [] c = "d" -> 100
       [] c = "f" -> 102 [] c = "h" -> 104 [] c = "l" -> 108 [] c = "m" -> 109
       [] c = "n" -> 110 [] c = "o" -> 111 [] c = "p" -> 112 [] c = "r" -> 114
       [] c = "t" -> 116 [] c = "u" -> 117 [] c = "x" -> 120]

\* str.lower() on one character
LowerChar(c) ==
  CASE c = "A" -> "a" [] c = "C" -> "c" [] c = "F" -> "f" [] c = "H" -> "h"
    [] c = "L" -> "l" [] c = "M" -> "m" [] c = "N" -> "n" [] c = "O" -> "o"
    [] c = "P" -> "p" [] c = "R" -> "r" [] c = "T" -> "t" [] c = "U" -> "u"
    [] c = "X" -> "x" [] OTHER -> c

Lower(s) == [i \in 1..Len(s) |-> LowerChar(s[i])]

StartsWith(s, p) == Len(s) >= Len(p) /\ SubSeq(s, 1, Len(p)) = p

RECURSIVE LStrip(_)
LStrip(s) == IF s # <<>> /\ Head(s) \in Whitespace THEN LStrip(Tail(s)) ELSE s

RECURSIVE RStrip(_)
RStrip(s) ==
  IF s # <<>> /\ s[Len(s)] \in Whitespace THEN RStrip(SubSeq(s, 1, Len(s) - 1)) ELSE s

\* str.strip()
Strip(s) == RStrip(LStrip(s))

\* str.split(): the maximal runs of non-whitespace characters, left to right
RECURSIVE SplitFrom(_, _, _)
SplitFrom(s, cur, acc) ==
  IF s = <<>> THEN (IF cur = <<>> THEN acc ELSE Append(acc, cur))
  ELSE IF Head(s) \in Whitespace
       THEN SplitFrom(Tail(s), <<>>, IF cur = <<>> THEN acc ELSE Append(acc, cur))
       ELSE SplitFrom(Tail(s), Append(cur, Head(s)), acc)

Split(s) == SplitFrom(s, <<>>, <<>>)

\* " ".join(words)
RECURSIVE JoinSpace(_)
JoinSpace(words) ==
  IF words = <<>> THEN <<>>
  ELSE IF Len(words) = 1 THEN words[1]
  ELSE words[1] \o <<" ">> \o JoinSpace(Tail(words))

\* re.sub(r"\s+", " ", s): every maximal whitespace run becomes one space
RECURSIVE ReSubWs(_)
ReSubWs(s) ==
  IF s = <<>> THEN <<>>
  ELSE IF Head(s) \in Whitespace
       THEN <<" ">> \o ReSubWs(LStrip(s))
       ELSE <<Head(s)>> \o ReSubWs(Tail(s))

\* Python's < on str: lexicographic on code points
RECURSIVE StrLess(_, _)
StrLess(a, b) ==
  IF b = <<>> THEN FALSE
  ELSE IF a = <<>> THEN TRUE
  ELSE IF CharCode[Head(a)] # CharCode[Head(b)] THEN CharCode[Head(a)] < CharCode[Head(b)]
  ELSE StrLess(Tail(a), Tail(b))

\* sorted(list of str): insertion of each element in order (stable)
RECURSIVE SortedStrs(_)
SortedStrs(l) ==
  IF l = <<>> THEN <<>>
  ELSE LET rest == SortedStrs(Tail(l))
           x == Head(l)
           k == Cardinality({i \in 1..Len(rest) : StrLess(rest[i], x)})
       IN SubSeq(rest, 1, k) \o <<x>> \o SubSeq(rest, k + 1, Len(rest))

\* Series.astype(str) on one cell: NaN becomes the text 'nan'
astype_str(x) == IF x.kind = "nan" THEN Str(<<"n", "a", "n">>) ELSE x

\* the first n elements of a list: l[:n]
Take(l, n) == SubSeq(l, 1, IF Len(l) < n THEN Len(l) ELSE n)

\* the positions of a sequence that satisfy a mask, as index labels, in order
RECURSIVE LabelsWhere(_, _)
LabelsWhere(mask, n) ==
  IF n = 0 THEN <<>>
  ELSE IF mask[n] THEN Append(LabelsWhere(mask, n - 1), n - 1)
  ELSE LabelsWhere(mask, n - 1)

(***************************************************************************)
(* Tables.                                                                 *)
(***************************************************************************)
Table(cols, rows) == [columns |-> cols, rows |-> rows]

\* a table read from a file: df.columns lists the columns in the order of
\* the file's header
FileTable(header, rows) ==
  [columns |-> {header[k] : k \in 1..Len(header)}, rows |-> rows, header |-> header]

NRows(d) == Len(d.rows)

\* df[c]: the column as a sequence of cells
Column(d, c) == [i \in 1..NRows(d) |-> d.rows[i][c]]

\* df[c] = vals
SetColumn(d, c, vals) ==
  [d EXCEPT !.rows = [i \in 1..NRows(d) |-> [d.rows[i] EXCEPT ![c] = vals[i]]]]

\* the dtype pandas gives a loaded column: object as soon as one cell is text
\* (and for a column without rows), float64 when every cell is NaN
Dtype(d, c) ==
  IF NRows(d) = 0 \/ \E i \in 1..NRows(d) : d.rows[i][c].kind = "str"
  THEN "object" ELSE "float64"

\* a check's outcome: the pair it returns, or the exception it raises
Return(m, i) == [messages |-> m, issues |-> i]
Raise(e) == [raise |-> e]
Raised(r) == "raise" \in DOMAIN r

\* the f-string of a message: its template and the values formatted into it
Message(tag, count, examples, subject, categories) ==
  [tag |-> tag, count |-> count, examples |-> examples, subject |-> subject,
   categories |-> categories]

Issue(type, texte, lignes) ==
  [type_erreur |-> type, texte_erreur |-> texte, lignes |-> lignes]

\* lignes: str(indices[j]) -> entries[j], for the index labels of a list
Lignes(indices, entries) ==
  [k \in {ToString(indices[j]) : j \in 1..Len(indices)} |->
     entries[CHOOSE j \in 1..Len(indices) : ToString(indices[j]) = k]]

\* mutant of DataFrameCopy: the copy forgotten, the name bound to df itself
DataFrameAlias(src, fresh) == src

\* df.copy(): the reference of the new object
DataFrameCopy(src, fresh) == fresh

\* x.value_counts().index[0]: the most frequent value, the first seen among ties
ValueCountsFirst(l) ==
  LET cnt(x) == Cardinality({i \in 1..Len(l) : l[i] = x})
      best == CHOOSE n \in {cnt(l[i]) : i \in 1..Len(l)} :
                \A i \in 1..Len(l) : cnt(l[i]) <= n
      first == CHOOSE i \in 1..Len(l) :
                 cnt(l[i]) = best /\ \A j \in 1..(i - 1) : cnt(l[j]) # best
  IN l[first]

\* the texts isin([...]) tests against
MissingTexts == {<<>>, <<"N", "U", "L", "L">>, <<"n", "u", "l", "l">>}

\* mutant of StripIsMissing: the strip forgotten
StripIsMissingNoStrip(x) == astype_str(x).v \in MissingTexts

\* Series.astype(str).str.strip().isin(["", "NULL", "null"]) on one cell
StripIsMissing(x) == Strip(astype_str(x).v) \in MissingTexts

(***************************************************************************)
(* 1) check_missing_values                                                 *)
(***************************************************************************)
\* barcode -> most frequent Product of tmp_df's rows whose Product is not NaN
BarcodeToProduct(tmp) ==
  LET keep == {i \in 1..NRows(tmp) :
                 ~isna(tmp.rows[i]["Product"]) /\ ~isna(tmp.rows[i]["Barcode"])}
      index == {tmp.rows[i]["Barcode"] : i \in keep}
      grp(b) == LabelsWhere([i \in 1..NRows(tmp) |->
                               i \in keep /\ tmp.rows[i]["Barcode"] = b], NRows(tmp))
  IN [b \in index |->
        ValueCountsFirst([k \in 1..Len(grp(b)) |-> tmp.rows[grp(b)[k] + 1]["Product"]])]

check_missing_values(d) ==
  IF "Product" \notin d.columns THEN [ret |-> Return(<<>>, <<>>), df |-> d]
  ELSE
  LET has_barcode == "Barcode" \in d.columns
      heap0 == [o \in {"df", "tmp_df"} |-> d]
      tmp_df == DataFrameCopy("df", "tmp_df")
      heap1 == [heap0 EXCEPT ![tmp_df] =
                  SetColumn(@, "Product",
                            [i \in 1..NRows(@) |-> astype_str(@.rows[i]["Product"])])]
      product_missing_like ==
        [i \in 1..NRows(d) |-> Strip(heap1[tmp_df].rows[i]["Product"].v) \in MissingTexts]
      heap2 == [heap1 EXCEPT ![tmp_df] =
                  SetColumn(@, "Product",
                            [i \in 1..NRows(@) |->
                               IF product_missing_like[i] THEN NaN
                               ELSE @.rows[i]["Product"]])]
      heap == IF has_barcode THEN heap2 ELSE heap0
      barcode_to_product == IF has_barcode THEN BarcodeToProduct(heap[tmp_df]) ELSE <<>>
      cur == heap["df"]
      missing_mask == [i \in 1..NRows(cur) |->
                         isna(cur.rows[i]["Product"])
                         \/ StripIsMissing(cur.rows[i]["Product"])]
      missing_indices == LabelsWhere(missing_mask, NRows(cur))
      missing_count == Len(missing_indices)
      msg == Message("Missing Product Names", missing_count, Take(missing_indices, 3),
                     <<>>, <<>>)
      suggested(idx) ==
        IF has_barcode /\ cur.rows[idx + 1]["Barcode"] \in DOMAIN barcode_to_product
        THEN barcode_to_product[cur.rows[idx + 1]["Barcode"]]
        ELSE None
      entry(idx) == [default |-> ("Product" :> None),
                     correction |-> ("Product" :> suggested(idx))]
  IN IF missing_count = 0 THEN [ret |-> Return(<<>>, <<>>), df |-> cur]
     ELSE [ret |-> Return(<<msg>>,
                          <<Issue("Missing Product Names", msg,
                                  Lignes(missing_indices,
                                         [j \in 1..Len(missing_indices) |-> entry(missing_indices[j])]))>>),
           df |-> cur]

(***************************************************************************)
(* 2) check_duplicates                                                     *)
(***************************************************************************)
\* mutant of DuplicatedKeepFalse: keep='first', the first occurrence unmarked
DuplicatedKeepFirst(d) ==
  [i \in 1..NRows(d) |-> \E j \in 1..(i - 1) : d.rows[j] = d.rows[i]]

\* df.duplicated(keep=False): the rows equal (NaN = NaN) to another row
DuplicatedKeepFalse(d) ==
  [i \in 1..NRows(d) |-> \E j \in 1..NRows(d) : j # i /\ d.rows[j] = d.rows[i]]

DuplicatesReport(d) ==
  LET duplicated_mask == DuplicatedKeepFalse(d)
      duplicate_indices == LabelsWhere(duplicated_mask, NRows(d))
      duplicate_count == Len(duplicate_indices)
      msg == Message("Exact Duplicate Rows", duplicate_count,
                     Take(duplicate_indices, 3), <<>>, <<>>)
      entry(idx) == [default |-> d.rows[idx + 1], correction |-> None]
  IN IF duplicate_count > 0
     THEN Return(<<msg>>,
                 <<Issue("Exact Duplicate Rows",
                         Message("Exact duplicate rows detected", 0, <<>>, <<>>, <<>>),
                         Lignes(duplicate_indices,
                                [j \in 1..Len(duplicate_indices) |-> entry(duplicate_indices[j])]))>>)
     ELSE Return(<<>>, <<>>)

\* mutant of check_duplicates: the duplicates dropped from df itself
check_duplicates_drop(d) ==
  [ret |-> DuplicatesReport(d),
   df |-> [d EXCEPT !.rows =
             LET keep == LabelsWhere([i \in 1..NRows(d) |-> ~DuplicatedKeepFirst(d)[i]],
                                     NRows(d))
             IN [k \in 1..Len(keep) |-> d.rows[keep[k] + 1]]]]

\* the findings are computed from df, which is left as it is
check_duplicates(d) == [ret |-> DuplicatesReport(d), df |-> d]

(***************************************************************************)
(* 3) check_product_whitespace                                             *)
(***************************************************************************)
\* mutant of JoinSplit: original.strip(), internal runs left alone
JoinSplitStripOnly(original) == Strip(original)

\* " ".join(original.split())
JoinSplit(original) == JoinSpace(Split(original))

check_product_whitespace(d) ==
  IF "Product" \notin d.columns \/ Dtype(d, "Product") # "object"
  THEN [ret |-> Return(<<>>, <<>>), df |-> d]
  ELSE
  LET bad == [i \in 1..NRows(d) |->
                LET value == d.rows[i]["Product"]
                IN ~isna(value) /\ value.kind = "str" /\ value.v # JoinSplit(value.v)]
      indices == LabelsWhere(bad, NRows(d))
      error_count == Len(indices)
      entry(idx) ==
        [default |-> ("Product" :> d.rows[idx + 1]["Product"]),
         correction |-> ("Product" :> Str(JoinSplit(d.rows[idx + 1]["Product"].v)))]
      msg == Message("Product Whitespace Errors", error_count, Take(indices, 5),
                     <<>>, <<>>)
  IN IF error_count > 0
     THEN [ret |-> Return(<<msg>>,
                          <<Issue("Product Whitespace Errors",
                                  Message("Product contains whitespace errors.", 0,
                                          <<>>, <<>>, <<>>),
                                  Lignes(indices,
                                         [j \in 1..Len(indices) |-> entry(indices[j])]))>>),
           df |-> d]
     ELSE [ret |-> Return(<<>>, <<>>), df |-> d]

(***************************************************************************)
(* 4) check_supplier_variations                                            *)
(***************************************************************************)
Pharmax == <<"P", "h", "a", "r", "m", "a", "x">>

\* re.sub(r"\s+", " ", original).strip()
NormalizeSupplier(original) == Strip(ReSubWs(original))

\* mutant of IsPharmaxVariation: the raw text compared with 'Pharmax'
IsPharmaxVariationRaw(val) ==
  StartsWith(Lower(NormalizeSupplier(val.v)), Lower(Pharmax)) /\ val.v # Pharmax

\* lower.startswith("pharmax") and normalized != "Pharmax"
IsPharmaxVariation(val) ==
  LET normalized == NormalizeSupplier(val.v)
  IN StartsWith(Lower(normalized), Lower(Pharmax)) /\ normalized # Pharmax

check_supplier_variations(d) ==
  IF "OrderList" \notin d.columns THEN [ret |-> Return(<<>>, <<>>), df |-> d]
  ELSE
  LET hit == [i \in 1..NRows(d) |->
                ~isna(d.rows[i]["OrderList"]) /\ IsPharmaxVariation(d.rows[i]["OrderList"])]
      indices == LabelsWhere(hit, NRows(d))
      variation_count == Len(indices)
      entry(idx) == [default |-> ("Supplier" :> d.rows[idx + 1]["OrderList"]),
                     correction |-> ("Supplier" :> Str(Pharmax))]
      msg == Message("Supplier Name Variations (Pharmax drift)", variation_count,
                     <<>>, <<>>, <<>>)
  IN IF variation_count > 0
     THEN [ret |-> Return(<<msg>>,
                          <<Issue("Supplier Name Variations (Pharmax drift)",
                                  Message("Supplier name variations detected for 'Pharmax'",
                                          0, <<>>, <<>>, <<>>),
                                  Lignes(indices,
                                         [j \in 1..Len(indices) |-> entry(indices[j])]))>>),
           df |-> d]
     ELSE [ret |-> Return(<<>>, <<>>), df |-> d]

(***************************************************************************)
(* 5) check_category_drifts                                                *)
(***************************************************************************)
\* the distinct values of a list, in order of first appearance: Series.unique()
RECURSIVE Unique(_)
Unique(l) ==
  IF l = <<>> THEN <<>>
  ELSE LET u == Unique(SubSeq(l, 1, Len(l) - 1))
           x == l[Len(l)]
       IN IF \E i \in 1..Len(u) : u[i] = x THEN u ELSE Append(u, x)

\* mutant of DropNa: the NaN cells kept
DropNaKeepAll(l) == l

\* the cells of a list that are not NaN: Series.dropna()
RECURSIVE DropNa(_)
DropNa(l) ==
  IF l = <<>> THEN <<>>
  ELSE IF isna(Head(l)) THEN DropNa(Tail(l)) ELSE <<Head(l)>> \o DropNa(Tail(l))

Exputex ==
  <<"E", "x", "p", "u", "t", "e", "x", "C", "o", "u", "g", "h", "S", "y", "r", "u", "p",
    "2", "0", "0", "m", "l">>

\* the keys of df.groupby("Product"): the non-NaN products, sorted
ProductKeys(d) ==
  SortedStrs(Unique([i \in 1..Len(DropNa(Column(d, "Product"))) |->
                       DropNa(Column(d, "Product"))[i].v]))

\* the message and the issue of one product, or <<>> when it has no drift
DriftOfProduct(d, product) ==
  LET group == LabelsWhere([i \in 1..NRows(d) |-> d.rows[i]["Product"] = Str(product)],
                           NRows(d))
      unique_depts ==
        Unique(DropNa([k \in 1..Len(group) |-> d.rows[group[k] + 1]["Dept Fullname"]]))
      dept_list == SortedStrs([k \in 1..Len(unique_depts) |-> unique_depts[k].v])
      rows(dept) ==
        LabelsWhere([i \in 1..NRows(d) |->
                       d.rows[i]["Product"] = Str(product)
                       /\ d.rows[i]["Dept Fullname"] = dept], NRows(d))
      dept_info == [k \in 1..Len(unique_depts) |->
                      [dept |-> unique_depts[k].v, rows |-> Take(rows(unique_depts[k]), 3)]]
      all_rows == LabelsWhere([i \in 1..NRows(d) |->
                                 d.rows[i]["Product"] = Str(product)
                                 /\ ~isna(d.rows[i]["Dept Fullname"])], NRows(d))
      entry(idx) ==
        [default |-> ("Dept Fullname" :> d.rows[idx + 1]["Dept Fullname"]),
         correction |-> ("Dept Fullname" :> PyList(dept_list))]
      msg == Message(IF product = Exputex THEN "Category Drift (Exputex note)"
                     ELSE "Category Drift",
                     0, <<>>, product, dept_info)
  IN IF Len(unique_depts) <= 1 THEN <<>>
     ELSE <<[msg |-> msg,
             issue |-> Issue("Category Drift",
                             Message("Category drift detected for product", 0, <<>>,
                                     product, <<>>),
                             Lignes(all_rows,
                                    [j \in 1..Len(all_rows) |-> entry(all_rows[j])]))]>>

RECURSIVE DriftsOf(_, _)
DriftsOf(d, products) ==
  IF products = <<>> THEN <<>>
  ELSE DriftOfProduct(d, Head(products)) \o DriftsOf(d, Tail(products))

check_category_drifts(d) ==
  IF "Product" \notin d.columns \/ "Dept Fullname" \notin d.columns
  THEN [ret |-> Return(<<>>, <<>>), df |-> d]
  ELSE LET found == DriftsOf(d, ProductKeys(d))
       IN [ret |-> Return([k \in 1..Len(found) |-> found[k].msg],
                          [k \in 1..Len(found) |-> found[k].issue]),
           df |-> d]

(***************************************************************************)
(* 6) check_near_duplicate_rows                                            *)
(***************************************************************************)
\* Sale Date is modelled in ticks of half a second
TicksPerSecond == 2

\* pd.to_datetime raises on a column holding a text that is no date
ToDatetimeRaises(col) == \E i \in 1..Len(col) : col[i].kind = "str"

\* pd.to_datetime on one cell
to_datetime(x) == IF x.kind = "date" THEN Timestamp(x.v) ELSE NaT

\* sort_values("Sale Date") of a group given in index order: ascending,
\* NaT last, equal keys in their original order
DateBefore(a, b) == a.kind = "ts" /\ (b.kind = "NaT" \/ a.v < b.v)

SortByDate(dc, group) ==
  LET key(k) == dc.rows[group[k] + 1]["Sale Date"]
      rank(k) == Cardinality({j \in 1..Len(group) :
                                DateBefore(key(j), key(k))
                                \/ (~DateBefore(key(k), key(j)) /\ j < k)})
  IN [r \in 1..Len(group) |-> group[CHOOSE k \in 1..Len(group) : rank(k) = r - 1]]

Abs(n) == IF n < 0 THEN -n ELSE n


\* the groups of groupby(cols_to_check, dropna=False): the index labels of
\* the rows with equal keys (NaN = NaN), each group once, in the sorted
\* order of the keys (sort=True): the first key column where two keys
\* differ decides, numbers by value, then texts by code point, NaN last.
\* cols_to_check lists the key columns in the order of df_copy.columns
GroupsOf(dc) ==
  LET cols_to_check == SelectSeq(dc.header, LAMBDA col : col # "Sale Date")
      key(i) == [k \in 1..Len(cols_to_check) |-> dc.rows[i][cols_to_check[k]]]
      CellLess(a, b) ==
        IF isna(a) THEN FALSE
        ELSE IF isna(b) THEN TRUE
        ELSE IF a.kind = "int" /\ b.kind = "int" THEN a.v < b.v
        ELSE IF a.kind = "str" /\ b.kind = "str" THEN StrLess(a.v, b.v)
        ELSE a.kind = "int"
      KeyLess(i, j) ==
        \E p \in 1..Len(cols_to_check) :
           /\ CellLess(key(i)[p], key(j)[p])
           /\ \A q \in 1..(p - 1) : key(i)[q] = key(j)[q]
      firsts == LabelsWhere([i \in 1..NRows(dc) |->
                               \A j \in 1..(i - 1) : key(j) # key(i)], NRows(dc))
      rank == [g \in 1..Len(firsts) |->
                 Cardinality({h \in 1..Len(firsts) :
                                KeyLess(firsts[h] + 1, firsts[g] + 1)})]
      sorted == [r \in 1..Len(firsts) |->
                   firsts[CHOOSE g \in 1..Len(firsts) : rank[g] = r - 1]]
  IN [r \in 1..Len(firsts) |->
        LabelsWhere([j \in 1..NRows(dc) |-> key(j) = key(sorted[r] + 1)], NRows(dc))]

\* diffs <= 1 between two consecutive times of a sorted group
NearInTime(a, b) ==
  a.kind = "ts" /\ b.kind = "ts" /\ Abs(b.v - a.v) <= 1 * TicksPerSecond

\* mutant of PairsOfGroup: every row paired with its predecessor, the
\* difference of their times not looked at
PairsOfGroupAnyTime(dc, group) ==
  LET sg == SortByDate(dc, group)
  IN [k \in 1..(Len(sg) - 1) |-> <<sg[k], sg[k + 1]>>]

\* the (prev_idx, idx) pairs of one group: for every idx of the sorted group
\* whose time is within one second of its predecessor's
PairsOfGroup(dc, group) ==
  IF Len(group) < 2 THEN <<>>
  ELSE
  LET sg == SortByDate(dc, group)
      t(idx) == dc.rows[idx + 1]["Sale Date"]
      candidate == [k \in 1..Len(sg) |-> k > 1 /\ NearInTime(t(sg[k - 1]), t(sg[k]))]
      pos == LabelsWhere(candidate, Len(sg))
  IN [n \in 1..Len(pos) |-> <<sg[pos[n]], sg[pos[n] + 1]>>]

\* near_dupe_pairs: the pairs of all groups, appended group after group
RECURSIVE PairsOfGroups(_, _)
PairsOfGroups(dc, groups) ==
  IF groups = <<>> THEN <<>>
  ELSE PairsOfGroup(dc, Head(groups)) \o PairsOfGroups(dc, Tail(groups))

NearDupePairs(dc) == PairsOfGroups(dc, GroupsOf(dc))

check_near_duplicate_rows(d) ==
  IF "Sale Date" \notin d.columns THEN [ret |-> Return(<<>>, <<>>), df |-> d]
  ELSE
  LET heap0 == [o \in {"df", "df_copy"} |-> d]
      df_copy == DataFrameCopy("df", "df_copy")
  IN IF ToDatetimeRaises(Column(heap0[df_copy], "Sale Date"))
     THEN [ret |-> Return(<<>>, <<>>), df |-> heap0["df"]]
     ELSE
     LET heap == [heap0 EXCEPT ![df_copy] =
                    SetColumn(@, "Sale Date",
                              [i \in 1..NRows(@) |-> to_datetime(@.rows[i]["Sale Date"])])]
         dc == heap[df_copy]
         cur == heap["df"]
     IN IF dc.columns = {"Sale Date"} /\ NRows(dc) > 0
        THEN [ret |-> Raise("ValueError: No group keys passed!"), df |-> cur]
        ELSE
        LET near_dupe_pairs == NearDupePairs(dc)
            involved == LabelsWhere([i \in 1..NRows(dc) |->
                                       \E q \in 1..Len(near_dupe_pairs) :
                                          \/ near_dupe_pairs[q][1] = i - 1
                                          \/ near_dupe_pairs[q][2] = i - 1], NRows(dc))
            entry(idx) == [default |-> cur.rows[idx + 1], correction |-> None]
            msg == Message("Near-Duplicate Rows", Len(near_dupe_pairs), <<>>,
                           <<>>, <<>>)
        IN IF near_dupe_pairs # <<>>
           THEN [ret |-> Return(<<msg>>,
                                <<Issue("Near-Duplicate Rows",
                                        Message("Near-duplicate rows detected", 0, <<>>,
                                                <<>>, <<>>),
                                        Lignes(involved,
                                               [j \in 1..Len(involved) |-> entry(involved[j])]))>>),
                 df |-> cur]
           ELSE [ret |-> Return(<<>>, <<>>), df |-> cur]

(***************************************************************************)
(* compute_anomaly_stats and errors_counting_check.py                      *)
(***************************************************************************)
\* mutant of compute_anomaly_stats: one counted per issue, not per ligne
compute_anomaly_stats_per_issue(issues) ==
  LET types == {issues[k].type_erreur : k \in 1..Len(issues)}
  IN [ty \in types |-> Cardinality({k \in 1..Len(issues) : issues[k].type_erreur = ty})]

\* the error types of a list of issues, and the sum of len(lignes) per type
compute_anomaly_stats(issues) ==
  LET types == {issues[k].type_erreur : k \in 1..Len(issues)}
      SumLen[n \in 0..Len(issues), ty \in types] ==
        IF n = 0 THEN 0
        ELSE SumLen[n - 1, ty]
             + (IF issues[n].type_erreur = ty
                THEN Cardinality(DOMAIN issues[n].lignes) ELSE 0)
  IN [ty \in types |-> SumLen[Len(issues), ty]]

count_missing_product_names(d) ==
  IF "Product" \notin d.columns THEN 0
  ELSE Cardinality({i \in 1..NRows(d) :
                      isna(d.rows[i]["Product"]) \/ StripIsMissing(d.rows[i]["Product"])})

\* "  " in s
HasDoubleSpace(s) == \E i \in 1..(Len(s) - 1) : s[i] = " " /\ s[i + 1] = " "

\* has_whitespace_issue(x): str(x) of a number holds no white space
has_whitespace_issue(x) ==
  IF isna(x) THEN FALSE
  ELSE IF x.kind # "str" THEN FALSE
  ELSE x.v # Strip(x.v) \/ HasDoubleSpace(x.v)

count_product_whitespace_errors(d) ==
  IF "Product" \notin d.columns THEN 0
  ELSE Cardinality({i \in 1..NRows(d) : has_whitespace_issue(d.rows[i]["Product"])})

\* the distinct rows among the duplicated ones: df[dup_mask].drop_duplicates()
count_exact_duplicates(d) ==
  LET dup_mask == DuplicatedKeepFalse(d)
  IN [rows_involved |-> Cardinality({i \in 1..NRows(d) : dup_mask[i]}),
      duplicate_groups |-> Cardinality({d.rows[i] : i \in {j \in 1..NRows(d) : dup_mask[j]}})]

\* count_near_duplicates counting two rows for each pair
count_near_duplicates_per_pair(d) ==
  IF "Sale Date" \notin d.columns THEN [pairs |-> 0, rows_involved |-> 0]
  ELSE IF ToDatetimeRaises(Column(d, "Sale Date")) THEN [pairs |-> 0, rows_involved |-> 0]
  ELSE
  LET df_copy == SetColumn(d, "Sale Date",
                           [i \in 1..NRows(d) |-> to_datetime(d.rows[i]["Sale Date"])])
  IN IF df_copy.columns = {"Sale Date"} /\ NRows(df_copy) > 0
     THEN Raise("ValueError: No group keys passed!")
     ELSE [pairs |-> Len(NearDupePairs(df_copy)),
           rows_involved |-> 2 * Len(NearDupePairs(df_copy))]

\* the same grouping and pairing as check_near_duplicate_rows, counted
count_near_duplicates(d) ==
  IF "Sale Date" \notin d.columns THEN [pairs |-> 0, rows_involved |-> 0]
  ELSE IF ToDatetimeRaises(Column(d, "Sale Date")) THEN [pairs |-> 0, rows_involved |-> 0]
  ELSE
  LET df_copy == SetColumn(d, "Sale Date",
                           [i \in 1..NRows(d) |-> to_datetime(d.rows[i]["Sale Date"])])
  IN IF df_copy.columns = {"Sale Date"} /\ NRows(df_copy) > 0
     THEN Raise("ValueError: No group keys passed!")
     ELSE LET near_dupe_pairs == NearDupePairs(df_copy)
              rows_set == UNION {{near_dupe_pairs[q][1], near_dupe_pairs[q][2]} :
                                   q \in 1..Len(near_dupe_pairs)}
          IN [pairs |-> Len(near_dupe_pairs), rows_involved |-> Cardinality(rows_set)]

(***************************************************************************)
(* scripts/detect_errors_*.py: check_duplicates of each script.  A script   *)
(* returns a list of texts; a text is modelled by its wording and the      *)
(* values formatted into it.                                               *)
(***************************************************************************)
\* df.duplicated(): the rows equal to an earlier row
Duplicated(d) == [i \in 1..NRows(d) |-> \E j \in 1..(i - 1) : d.rows[j] = d.rows[i]]

\* mask.sum()
MaskSum(mask) == Cardinality({i \in DOMAIN mask : mask[i]})

\* df[mask]: the rows of the mask, in order
SelectRows(d, mask) ==
  LET keep == LabelsWhere(mask, NRows(d))
  IN [d EXCEPT !.rows = [k \in 1..Len(keep) |-> d.rows[keep[k] + 1]]]

\* detect_errors_1.py, detect_errors_3.py: the count of df.duplicated()
DuplicatesFirstOnly(wording, d) ==
  LET duplicate_count == MaskSum(Duplicated(d))
  IN IF duplicate_count > 0 THEN <<Message(wording, duplicate_count, <<>>, <<>>, <<>>)>>
     ELSE <<>>

\* the scripts that build the keep=False mask and format `count` and the
\* first n of its index labels
DuplicatesWithExamples(wording, d, count, n) ==
  LET duplicated_mask == DuplicatedKeepFalse(d)
      duplicate_count == MaskSum(duplicated_mask)
      duplicate_indices == LabelsWhere(duplicated_mask, NRows(d))
  IN IF duplicate_count > 0
     THEN <<Message(wording, count, Take(duplicate_indices, n), <<>>, <<>>)>>
     ELSE <<>>

check_duplicates_1(d) == DuplicatesFirstOnly("ERROR: There are N duplicate rows.", d)

\* detect_errors_2.py: pct = (dup_count / len(df)) * 100 is binary64 arithmetic
\* and {pct:.2f} prints the hundredths nearest to the exact value of that
\* float, a tie going to the even digit. The quotient and the product are each
\* rounded to 53 significant bits (nearest, tie to even). Away from a tie of
\* the exact ratio the two rounding errors (below 2^-50 of the value) cannot
\* move the float across the midpoint, which is at least 1/(2n) hundredths
\* away. On a tie the ratio is m/20000 with m odd: the quotient is then the
\* 53-bit rounding of m/20000 (long division, 13 bits at a time after the
\* leading bit), the product drops t low bits of 100 times that mantissa, and
\* the sign of the float minus the midpoint is the sign of
\* quotient_error + 200 * product_error, both in units of the last place of
\* the quotient.
PercentHundredths(dup_count, n) ==
  LET q == (dup_count * 10000) \div n
      rest == (dup_count * 10000) % n
      m == 2 * q + 1
      e == CHOOSE k \in 0..15 : 2^k * m >= 20000 /\ (k = 0 \/ 2^(k - 1) * m < 20000)
      r1 == ((2^e * m - 20000) * 8192) % 20000
      r2 == (r1 * 8192) % 20000
      r3 == (r2 * 8192) % 20000
      c4 == (r3 * 8192) \div 20000
      r4 == (r3 * 8192) % 20000
      up == IF 2 * r4 > 20000 \/ (2 * r4 = 20000 /\ c4 % 2 = 1) THEN 1 ELSE 0
      quotient_error == 20000 * up - r4
      t == IF 2^e * m >= 25600 THEN 7 ELSE 6
      low == (100 * (c4 + up)) % 2^(t + 1)
      dropped == low % 2^t
      product_error == IF dropped > 2^(t - 1) \/ (dropped = 2^(t - 1) /\ low \div 2^t = 1)
                       THEN 2^t - dropped ELSE 0 - dropped
      side == quotient_error + 200 * product_error
  IN IF 2 * rest < n THEN q
     ELSE IF 2 * rest > n THEN q + 1
     ELSE IF side < 0 THEN q
     ELSE IF side > 0 THEN q + 1
     ELSE IF q % 2 = 0 THEN q ELSE q + 1

check_duplicates_2(d) ==
  LET dup_count == MaskSum(Duplicated(d))
      hundredths == PercentHundredths(dup_count, NRows(d))
      cents == hundredths % 100
      pct == ToString(hundredths \div 100) \o "."
             \o (IF cents < 10 THEN "0" ELSE "") \o ToString(cents)
  IN IF dup_count > 0
     THEN <<Message("WARNING: Found N duplicate rows (P%)", dup_count, <<>>, <<pct>>,
                    <<>>)>>
     ELSE <<>>

check_duplicates_3(d) == DuplicatesFirstOnly("WARNING: There are N duplicate rows.", d)

check_duplicates_5(d) ==
  DuplicatesWithExamples("ERROR: There are N duplicate rows. Example rows: L.", d,
                         MaskSum(DuplicatedKeepFalse(d)), 3)

check_duplicates_6(d) ==
  DuplicatesWithExamples("ERROR: There are N duplicate rows. Example rows: L.", d,
                         MaskSum(Duplicated(SelectRows(d, DuplicatedKeepFalse(d)))), 3)

check_duplicates_7(d) == check_duplicates_5(d)

check_duplicates_8(d) == check_duplicates_6(d)

check_duplicates_9(d) == check_duplicates_6(d)

check_duplicates_10(d) ==
  DuplicatesWithExamples("ERROR: There are N duplicate rows. Example rows: L.", d,
                         MaskSum(Duplicated(d)), 3)

check_duplicates_11(d) ==
  DuplicatesWithExamples("[DUPLICATE_ROWS] ERROR: There are N duplicate rows. Example rows: L.",
                         d, MaskSum(DuplicatedKeepFalse(d)), 5)

ScriptNames ==
  {"detect_errors_1", "detect_errors_2", "detect_errors_3", "detect_errors_5",
   "detect_errors_6", "detect_errors_7", "detect_errors_8", "detect_errors_9",
   "detect_errors_10", "detect_errors_11"}

\* check_duplicates of the named script
ScriptCheckDuplicates(script, d) ==
  CASE script = "detect_errors_1" -> check_duplicates_1(d)
    [] script = "detect_errors_2" -> check_duplicates_2(d)
    [] script = "detect_errors_3" -> check_duplicates_3(d)
    [] script = "detect_errors_5" -> check_duplicates_5(d)
    [] script = "detect_errors_6" -> check_duplicates_6(d)
    [] script = "detect_errors_7" -> check_duplicates_7(d)
    [] script = "detect_errors_8" -> check_duplicates_8(d)
    [] script = "detect_errors_9" -> check_duplicates_9(d)
    [] script = "detect_errors_10" -> check_duplicates_10(d)
    [] script = "detect_errors_11" -> check_duplicates_11(d)

(***************************************************************************)
(* errors_counting_check.py, continued                                     *)
(***************************************************************************)
PossibleSupplierCols ==
  <<"OrderList", "Supplier", "Supplier Name", "Supplier_Name", "Manufacturer",
    "Manufacturer Name">>

count_pharmax_variations(d) ==
  LET present == {k \in 1..Len(PossibleSupplierCols) : PossibleSupplierCols[k] \in d.columns}
  IN IF present = {}
     THEN [pharmax_total |-> 0, canonical_pharmax |-> 0, variations |-> 0,
           by_value |-> <<>>]
     ELSE
     LET supplier_col ==
           PossibleSupplierCols[CHOOSE k \in present : \A j \in present : k <= j]
         normalized(i) == NormalizeSupplier(d.rows[i][supplier_col].v)
         family == {i \in 1..NRows(d) :
                      ~isna(d.rows[i][supplier_col])
                      /\ StartsWith(Lower(normalized(i)), Lower(Pharmax))}
         canonical == {i \in family : normalized(i) = Pharmax}
     IN [pharmax_total |-> Cardinality(family),
         canonical_pharmax |-> Cardinality(canonical),
         variations |-> Cardinality(family) - Cardinality(canonical),
         by_value |-> [v \in {normalized(i) : i \in family} |->
                         Cardinality({i \in family : normalized(i) = v})]]

(***************************************************************************)
(* The tables a run starts from: what load_dataset returned.               *)
(***************************************************************************)
AllColumns == {"Product", "Barcode", "OrderList", "Dept Fullname", "Sale Date"}

\* the rows over the columns S whose cells are drawn per column from dom
RowsOver(S, dom) ==
  {f \in [S -> UNION {dom[c] : c \in S}] : \A c \in S : f[c] \in dom[c]}

\* all texts of at most n characters over an alphabet
RECURSIVE TextsUpTo(_, _)
TextsUpTo(alphabet, n) ==
  IF n = 0 THEN {<<>>}
  ELSE LET shorter == TextsUpTo(alphabet, n - 1)
       IN shorter \cup {Append(t, c) : t \in shorter, c \in alphabet}

\* tables over every non-empty set of the five columns the checks read
GenericDomain ==
  ("Product" :> {NaN, Str(<<"a", " ">>)})
  @@ ("Barcode" :> {NaN, Num(1)})
  @@ ("OrderList" :> {Str(<<"p", "h", "a", "r", "m", "a", "x">>)})
  @@ ("Dept Fullname" :> {Str(<<"O", "T", "C">>), Str(<<"F", "l", "u">>)})
  @@ ("Sale Date" :> {DateStr(0), Str(<<"x">>)})

GenericSchemas == SUBSET AllColumns \ {{}}

\* the columns in the order of EXPECTED_COLUMNS, Supplier after them
ColumnOrder ==
  <<"Product", "Barcode", "OrderList", "Dept Fullname", "Sale Date", "Supplier">>

\* the headers of the files with the columns S: the order of EXPECTED_COLUMNS
\* and, for a file with a sale date and two key columns or more, also the
\* reverse order
Headers(S) ==
  LET header == SelectSeq(ColumnOrder, LAMBDA col : col \in S)
  IN {header} \cup
     (IF "Sale Date" \in S /\ Len(header) > 2
      THEN {[k \in 1..Len(header) |-> header[Len(header) + 1 - k]]}
      ELSE {})

\* tables for the missing-product check: blank, NULL-like and real products
MissingDomain ==
  ("Product" :> {NaN, Str(<<>>), Str(<<" ">>), Str(<<"N", "U", "L", "L">>),
                 Str(<<" ", "n", "u", "l", "l">>), Str(<<"N", "u", "l", "l">>),
                 Str(<<"a">>), Str(<<"b">>)})
  @@ ("Barcode" :> {NaN, Num(1), Num(2)})

MissingSchemas == {{"Product"}, {"Barcode"}, {"Product", "Barcode"}}

\* tables for the duplicate check
DupDomain ==
  ("Product" :> {NaN, Str(<<"a">>)}) @@ ("Barcode" :> {NaN, Num(1)})

DupSchemas == {{"Product"}, {"Product", "Barcode"}}

\* tables for the whitespace check: every short text over a letter and a
\* space, and texts with a tab
TextDomain ==
  ("Product" :> ({NaN} \cup {Str(t) : t \in TextsUpTo({"a", " "}, MaxTextLen)}
                 \cup {Str(<<"\t", "a">>), Str(<<"a", "\t">>), Str(<<"a", "\t", "a">>),
                       Str(<<"a", " ", "\t", "a">>)}))
  @@ ("Barcode" :> {Num(1)})

TextSchemas == {{"Product"}, {"Barcode"}}

\* tables for the supplier check
SupplierDomain ==
  ("OrderList" :> {NaN, Str(Pharmax), Str(<<"p", "h", "a", "r", "m", "a", "x">>),
                   Str(<<"P", "H", "A", "R", "M", "A", "X">>),
                   Str(Pharmax \o <<" ">>), Str(<<"\t">> \o Pharmax),
                   Str(Pharmax \o <<" ", " ", "L", "t", "d">>),
                   Str(<<"P", "h", "a", "r", "m", "a">>), Str(<<"O", "t", "h", "r">>)})
  @@ ("Supplier" :> {Str(<<"p", "h", "a", "r", "m", "a", "x">>), Str(Pharmax)})
  @@ ("Barcode" :> {Num(1)})

SupplierSchemas == {{"OrderList"}, {"Supplier"}, {"OrderList", "Supplier"}, {"Barcode"}}

\* tables for the category drift check: two products, two departments
DriftDomain ==
  ("Product" :> {NaN, Str(<<"a">>), Str(<<"b">>)})
  @@ ("Dept Fullname" :> {NaN, Str(<<"O", "T", "C">>), Str(<<"F", "l", "u">>)})

DriftSchemas == {{"Product"}, {"Product", "Dept Fullname"}}

\* tables for the near-duplicate check: times half a second apart, a missing
\* time and a text that is no date
NearDomain ==
  ("Barcode" :> {NaN, Num(1)})
  @@ ("Sale Date" :> {NaN, DateStr(0), DateStr(1), DateStr(2), DateStr(3), Str(<<"x">>)})

NearSchemas == {{"Barcode"}, {"Sale Date"}, {"Barcode", "Sale Date"}}

\* tables for the statistics: products with several departments, missing
\* products and repeated rows
StatsDomain ==
  ("Product" :> {NaN, Str(<<"a">>), Str(<<"b">>)})
  @@ ("Dept Fullname" :> {Str(<<"O", "T", "C">>), Str(<<"F", "l", "u">>)})

StatsSchemas == {{"Product"}, {"Product", "Dept Fullname"}}

(***************************************************************************)
(* State of the scripts.  df is the table object main loaded; loaded keeps *)
(* its content at load time; last is the most recent call and its outcome;     *)
(* pc is main's position ("lib" when the functions are called directly);   *)
(* all_messages / all_issues are main's accumulators; json_file is the     *)
(* <name>_anomalies.json file.                                             *)
(***************************************************************************)
NoCall == [fn |-> "", ret |-> None]
NoFile == [written |-> FALSE, content |-> <<>>]

SessionIds == {"s1", "s2"}
DatasetIds == {"d1", "1"}

NoResponse == [endpoint |-> "", n |-> 0, status |-> 0, body |-> <<>>, io |-> <<>>]
NoUpload == [status |-> "none"]

\* an Optional[str] argument: None, or a text
NoText == [given |-> FALSE, text |-> <<>>]
Text(t) == [given |-> TRUE, text |-> t]

\* the slots in which requests are served, each request at a place of its
\* handler with the locals it holds there
SlotOrder == <<"t1", "t2">>
ThreadIds == {SlotOrder[k] : k \in 1..Len(SlotOrder)}
Idle == [at |-> "idle", endpoint |-> "", n |-> 0, io |-> <<>>, excel_context |-> NoText,
         messages |-> <<>>, reply |-> "", overlapped |-> FALSE, work |-> <<>>,
         body |-> <<>>]

\* SCRIPTS_DIR as the repository has it
RepositoryScripts == {script \o ".py" : script \in ScriptNames}

\* the repository before app.main is imported: no LLM, an empty message
\* store, no call of the LLM yet, no data directory, the scripts directory
\* with the scripts of the repository, no request served
AppInit ==
  /\ app = "not imported"
  /\ LLM = "None"
  /\ store = [s \in SessionIds |-> <<>>]
  /\ sent = <<>>
  /\ calls = <<>>
  /\ files = [name \in RepositoryScripts |-> <<name>>]
  /\ response = NoResponse
  /\ returned = [d \in DatasetIds |-> NoUpload]
  /\ requests = 0
  /\ overlaps = 0
  /\ threads = [t \in ThreadIds |-> Idle]

InitWith(schemas, dom, n, start) ==
  /\ \E S \in schemas, k \in 0..n :
        \E rows \in [1..k -> RowsOver(S, dom)], header \in Headers(S) :
           df = FileTable(header, rows)
  /\ loaded = df
  /\ last = NoCall
  /\ pc = start
  /\ all_messages = <<>>
  /\ all_issues = <<>>
  /\ json_file = NoFile
  /\ AppInit

(***************************************************************************)
(* main: the six checks in source order, then the stats and the JSON file. *)
(* An exception of a check is not caught: the script ends there.           *)
(***************************************************************************)
MainCall(here, fn, r, next) ==
  /\ pc = here
  /\ df' = r.df
  /\ last' = [fn |-> fn, ret |-> r.ret]
  /\ IF Raised(r.ret)
     THEN /\ pc' = "crashed"
          /\ UNCHANGED <<all_messages, all_issues>>
     ELSE /\ pc' = next
          /\ all_messages' = all_messages \o r.ret.messages
          /\ all_issues' = all_issues \o r.ret.issues
  /\ UNCHANGED <<loaded, json_file>>
  /\ UNCHANGED appvars

MainMissingValues ==
  MainCall("check_missing_values", "check_missing_values", check_missing_values(df),
           "check_duplicates")

MainDuplicates ==
  MainCall("check_duplicates", "check_duplicates", check_duplicates(df),
           "check_product_whitespace")

MainProductWhitespace ==
  MainCall("check_product_whitespace", "check_product_whitespace",
           check_product_whitespace(df), "check_supplier_variations")

MainSupplierVariations ==
  MainCall("check_supplier_variations", "check_supplier_variations",
           check_supplier_variations(df), "check_category_drifts")

MainCategoryDrifts ==
  MainCall("check_category_drifts", "check_category_drifts", check_category_drifts(df),
           "check_near_duplicate_rows")

MainNearDuplicateRows ==
  MainCall("check_near_duplicate_rows", "check_near_duplicate_rows",
           check_near_duplicate_rows(df), "report")

\* the issues with each row kept only in the first issue that reports it
RECURSIVE Resolved(_, _)
Resolved(issues, seen) ==
  IF issues = <<>> THEN <<>>
  ELSE LET keep == DOMAIN Head(issues).lignes \ seen
       IN <<[Head(issues) EXCEPT !.lignes = [k \in keep |-> Head(issues).lignes[k]]]>>
          \o Resolved(Tail(issues), seen \cup keep)

\* MainReport resolving the overlaps before it writes
MainReportResolved ==
  /\ pc = "report"
  /\ last' = [fn |-> "compute_anomaly_stats", ret |-> compute_anomaly_stats(all_issues)]
  /\ json_file' = [written |-> TRUE, content |-> Resolved(all_issues, {})]
  /\ pc' = "done"
  /\ UNCHANGED <<df, loaded, all_messages, all_issues>>
  /\ UNCHANGED appvars

\* the stats are printed and all_issues is dumped to the JSON file
MainReport ==
  /\ pc = "report"
  /\ last' = [fn |-> "compute_anomaly_stats", ret |-> compute_anomaly_stats(all_issues)]
  /\ json_file' = [written |-> TRUE, content |-> all_issues]
  /\ pc' = "done"
  /\ UNCHANGED <<df, loaded, all_messages, all_issues>>
  /\ UNCHANGED appvars

Init == InitWith(GenericSchemas, GenericDomain, MaxRows, "check_missing_values")

Next ==
  \/ MainMissingValues
  \/ MainDuplicates
  \/ MainProductWhitespace
  \/ MainSupplierVariations
  \/ MainCategoryDrifts
  \/ MainNearDuplicateRows
  \/ MainReport

Spec == Init /\ [][Next]_vars

\* main on the tables of the missing-product check
InitOverlap == InitWith(MissingSchemas, MissingDomain, MaxRowsMissing, "check_missing_values")
SpecOverlap == InitOverlap /\ [][Next]_vars

\* main on the tables of the statistics
InitStats == InitWith(StatsSchemas, StatsDomain, MaxRowsStats, "check_missing_values")
SpecStats == InitStats /\ [][Next]_vars

(***************************************************************************)
(* The functions called directly, in any order, on the loaded table.       *)
(***************************************************************************)
LibCall(fn, r) ==
  /\ pc = "lib"
  /\ df' = r.df
  /\ last' = [fn |-> fn, ret |-> r.ret]
  /\ UNCHANGED <<loaded, pc, all_messages, all_issues, json_file>>
  /\ UNCHANGED appvars

\* a counter of errors_counting_check.py: it returns a value and keeps df
Pure(d, value) == [ret |-> value, df |-> d]

CallMissingValues == LibCall("check_missing_values", check_missing_values(df))
CallDuplicates == LibCall("check_duplicates", check_duplicates(df))
CallProductWhitespace == LibCall("check_product_whitespace", check_product_whitespace(df))
CallSupplierVariations ==
  LibCall("check_supplier_variations", check_supplier_variations(df))
CallCategoryDrifts == LibCall("check_category_drifts", check_category_drifts(df))
CallNearDuplicateRows ==
  LibCall("check_near_duplicate_rows", check_near_duplicate_rows(df))
CallCountMissing ==
  LibCall("count_missing_product_names", Pure(df, count_missing_product_names(df)))
CallCountExactDuplicates ==
  LibCall("count_exact_duplicates", Pure(df, count_exact_duplicates(df)))
CallCountNear ==
  LibCall("count_near_duplicates", Pure(df, count_near_duplicates(df)))
CallScriptDuplicates ==
  \E script \in ScriptNames : LibCall(script, Pure(df, ScriptCheckDuplicates(script, df)))
CallCountWhitespace ==
  LibCall("count_product_whitespace_errors", Pure(df, count_product_whitespace_errors(df)))
CallCountPharmax ==
  LibCall("count_pharmax_variations", Pure(df, count_pharmax_variations(df)))

InitChecks == InitWith(GenericSchemas, GenericDomain, MaxRows, "lib")

NextChecks ==
  \/ CallMissingValues
  \/ CallDuplicates
  \/ CallProductWhitespace
  \/ CallSupplierVariations
  \/ CallCategoryDrifts
  \/ CallNearDuplicateRows

SpecChecks == InitChecks /\ [][NextChecks]_vars

InitMissing == InitWith(MissingSchemas, MissingDomain, MaxRowsMissing, "lib")
NextMissing == CallMissingValues \/ CallCountMissing
SpecMissing == InitMissing /\ [][NextMissing]_vars

InitDup == InitWith(DupSchemas, DupDomain, MaxRowsDup, "lib")
NextDup == CallDuplicates \/ CallCountExactDuplicates
SpecDup == InitDup /\ [][NextDup]_vars

InitText == InitWith(TextSchemas, TextDomain, MaxRowsText, "lib")
NextText == CallProductWhitespace \/ CallMissingValues \/ CallCountWhitespace
SpecText == InitText /\ [][NextText]_vars

InitSupplier == InitWith(SupplierSchemas, SupplierDomain, MaxRowsSupplier, "lib")
NextSupplier == CallSupplierVariations \/ CallCountPharmax
SpecSupplier == InitSupplier /\ [][NextSupplier]_vars

InitDrift == InitWith(DriftSchemas, DriftDomain, MaxRowsDrift, "lib")
NextDrift == CallCategoryDrifts
SpecDrift == InitDrift /\ [][NextDrift]_vars

InitNear == InitWith(NearSchemas, NearDomain, MaxRowsNear, "lib")
NextNear == CallNearDuplicateRows \/ CallCountNear
SpecNear == InitNear /\ [][NextNear]_vars

\* check_duplicates of the scripts, each on the loaded table
NextScripts == CallScriptDuplicates
SpecScripts == InitDup /\ [][NextScripts]_vars

(***************************************************************************)
(* app/sampling.py.  A frame is its index, the label of each row in row    *)
(* order; a row is named by its position.  The sample is the sequence of   *)
(* the positions of its rows.                                              *)
(***************************************************************************)
\* pd.RangeIndex(n)
RangeIndex(n) == [p \in 1..n |-> p - 1]

\* the index after the rows were put in reverse order
ReversedIndex(n) == [p \in 1..n |-> n - p]

\* the index of a frame put together from pieces (pd.concat without
\* ignore_index): the row at position p carries the label of the one at q
RepeatedIndex(n, p, q) == [x \in 1..n |-> IF x = p THEN q - 1 ELSE x - 1]

Indexes(n) ==
  {RangeIndex(n), ReversedIndex(n)} \cup {RepeatedIndex(n, p, q) : p, q \in 1..n}

\* df.head(k) and df.tail(k) for k >= 0
HeadRows(n, k) == [x \in 1..(IF k < n THEN k ELSE n) |-> x]
TailRows(n, k) == [x \in 1..(IF k < n THEN k ELSE n) |-> (IF k < n THEN n - k ELSE 0) + x]

\* df.iloc[start:end].sample(n=c, random_state=42): c rows of the slice, in
\* an order the generator decides
SampleRows(start, end, c) ==
  {r \in [1..c -> (start + 1)..end] : \A x, y \in 1..c : x # y => r[x] # r[y]}

\* the positions that carry a label, in row order
RECURSIVE PositionsOf(_, _, _)
PositionsOf(index, label, from) ==
  IF from > Len(index) THEN <<>>
  ELSE (IF index[from] = label THEN <<from>> ELSE <<>>)
       \o PositionsOf(index, label, from + 1)

\* df.loc[labels]: every row carrying each of the labels
RECURSIVE Loc(_, _)
Loc(index, labels) ==
  IF labels = <<>> THEN <<>>
  ELSE PositionsOf(index, Head(labels), 1) \o Loc(index, Tail(labels))

\* sort_index(): the rows in the order of their labels (rows of equal label
\* keep their order)
RECURSIVE InsertByLabel(_, _, _)
InsertByLabel(index, sorted, p) ==
  IF sorted = <<>> THEN <<p>>
  ELSE IF index[p] < index[Head(sorted)] THEN <<p>> \o sorted
  ELSE <<Head(sorted)>> \o InsertByLabel(index, Tail(sorted), p)

RECURSIVE SortIndex(_, _)
SortIndex(index, rows) ==
  IF rows = <<>> THEN <<>>
  ELSE InsertByLabel(index, SortIndex(index, SubSeq(rows, 1, Len(rows) - 1)),
                     rows[Len(rows)])

\* smart_sample_dataframe(df, max_sample_rows) for max_sample_rows >= 0: the
\* samples it can return
smart_sample_dataframe(index, max_sample_rows) ==
  LET total_rows == Len(index)
      sample_size_per_section == max_sample_rows \div 3
      first_section == HeadRows(total_rows, sample_size_per_section)
      middle_start == sample_size_per_section
      middle_end == total_rows - sample_size_per_section
      width == middle_end - middle_start
      last_section == TailRows(total_rows, sample_size_per_section)
  IN IF total_rows <= max_sample_rows THEN {[p \in 1..total_rows |-> p]}
     ELSE IF middle_end > middle_start
     THEN {SortIndex(index,
                     first_section
                     \o Loc(index, [x \in 1..Len(r) |-> index[r[x]]])
                     \o last_section) :
             r \in SampleRows(middle_start, middle_end,
                              IF sample_size_per_section < width
                              THEN sample_size_per_section ELSE width)}
     ELSE {SortIndex(index, first_section \o last_section)}

\* the frames given to smart_sample_dataframe: one column, each row holding
\* its position
InitSample ==
  /\ \E n \in 0..MaxRowsSample : \E index \in Indexes(n) :
        df = [columns |-> {"A"}, rows |-> [p \in 1..n |-> [c \in {"A"} |-> Num(p)]],
              index |-> index]
  /\ loaded = df
  /\ last = NoCall
  /\ pc = "lib"
  /\ all_messages = <<>>
  /\ all_issues = <<>>
  /\ json_file = NoFile
  /\ AppInit

CallSmartSample ==
  /\ pc = "lib"
  /\ \E max_sample_rows \in 0..MaxSampleRows :
       \E sampled \in smart_sample_dataframe(df.index, max_sample_rows) :
          last' = [fn |-> "smart_sample_dataframe",
                   ret |-> [rows |-> sampled, max_sample_rows |-> max_sample_rows]]
  /\ UNCHANGED <<df, loaded, pc, all_messages, all_issues, json_file>>
  /\ UNCHANGED appvars

NextSample == CallSmartSample
SpecSample == InitSample /\ [][NextSample]_vars

(***************************************************************************)
(* app/code_analysis.py: _parse_analysis_response.  A response text is a   *)
(* sequence of tokens: white space, a code fence, a word, or the text of a *)
(* JSON document, which stands for the value json.loads gives for it.  A   *)
(* JSON object is the function from its keys to its values.                *)
(***************************************************************************)
Ws == [t |-> "ws", v |-> "\n"]
\* a code fence, three backticks
Fence == [t |-> "fence", v |-> "fence"]
Word(w) == [t |-> "word", v |-> w]
Doc(value) == [t |-> "doc", v |-> value]

JsonObject(fields) == [kind |-> "object", fields |-> fields]
JsonArray == [kind |-> "array", fields |-> <<>>]

\* str.strip() of a token text
RECURSIVE StripTokens(_)
StripTokens(text) ==
  IF text # <<>> /\ Head(text).t = "ws" THEN StripTokens(Tail(text))
  ELSE IF text # <<>> /\ text[Len(text)].t = "ws"
       THEN StripTokens(SubSeq(text, 1, Len(text) - 1))
  ELSE text

StartsWithFence(text) == Len(text) >= 1 /\ text[1].t = "fence"

StartsWithFenceJson(text) ==
  Len(text) >= 2 /\ text[1].t = "fence" /\ text[2].t = "word" /\ text[2].v = "json"

EndsWithFence(text) == Len(text) >= 1 /\ text[Len(text)].t = "fence"

\* d[key] = value on a dict
SetKey(d, key, value) == [k \in DOMAIN d \cup {key} |-> IF k = key THEN value ELSE d[k]]

\* datetime.now(timezone.utc).isoformat()
Now == "now"

\* the defaults given to an issue (lines 266-271)
FillIssue(issue, dataset_id) ==
  LET with_id ==
        IF "id" \notin DOMAIN issue
        THEN SetKey(issue, "id",
                    dataset_id \o "_"
                    \o (IF "type" \in DOMAIN issue THEN issue["type"] ELSE "unknown"))
        ELSE issue
      with_category ==
        IF "category" \notin DOMAIN with_id THEN SetKey(with_id, "category", "quick_fixes")
        ELSE with_id
  IN IF "severity" \notin DOMAIN with_category
     THEN SetKey(with_category, "severity", "medium")
     ELSE with_category

\* _parse_analysis_response(response_text, dataset_id): [value |-> data] when
\* it returns, the exception when it raises
_parse_analysis_response(response_text, dataset_id) ==
  LET stripped == StripTokens(response_text)
      opened == IF StartsWithFenceJson(stripped) THEN SubSeq(stripped, 3, Len(stripped))
                ELSE IF StartsWithFence(stripped) THEN Tail(stripped)
                ELSE stripped
      closed == IF EndsWithFence(opened) THEN SubSeq(opened, 1, Len(opened) - 1)
                ELSE opened
      text == StripTokens(closed)
  IN IF ~(Len(text) = 1 /\ text[1].t = "doc" /\ text[1].v.kind # "invalid")
     THEN Raise("ValueError")
     ELSE IF text[1].v.kind # "object" THEN Raise("TypeError")
     ELSE LET data == text[1].v.fields
              stamped == IF "completedAt" \notin DOMAIN data
                         THEN SetKey(data, "completedAt", Now) ELSE data
          IN IF "issues" \notin DOMAIN stamped THEN Raise("ValueError")
             ELSE [value |->
                     SetKey(stamped, "issues",
                            [i \in 1..Len(stamped["issues"]) |->
                               FillIssue(stamped["issues"][i], dataset_id)])]

\* the issues of the responses: each has the columns and the action, and any
\* of the other fields
OptionalIssueFields == {"id", "type", "severity", "category", "description"}

IssueWith(S) ==
  [f \in S \cup {"affectedColumns", "suggestedAction"} |->
     IF f = "affectedColumns" THEN <<"A">> ELSE "given " \o f]

\* the JSON objects holding n issues, with and without 'completedAt'
ObjectsWith(n) ==
  UNION {{JsonObject([k \in {"issues"} |-> [i \in 1..n |-> IssueWith(S[i])]]),
          JsonObject([k \in {"issues", "completedAt"} |->
                        IF k = "completedAt" THEN "then"
                        ELSE [i \in 1..n |-> IssueWith(S[i])]])} :
           S \in [1..n -> SUBSET OptionalIssueFields]}

\* the JSON documents of the responses: an array, a text that is no JSON,
\* objects without issues, objects with issues
Documents(max) ==
  {JsonArray, [kind |-> "invalid", fields |-> <<>>],
   JsonObject([k \in {"completedAt"} |-> "then"]), JsonObject([k \in {"summary"} |-> "s"])}
  \cup UNION {ObjectsWith(n) : n \in 0..max}

\* the ways the document comes in the text of the response
Wrappings(doc) ==
  {<<Doc(doc)>>,
   <<Ws, Fence, Word("json"), Ws, Doc(doc), Ws, Fence, Ws>>,
   <<Fence, Ws, Doc(doc), Ws, Fence>>,
   <<Fence, Word("json"), Doc(doc)>>,
   <<Word("Result:"), Ws, Doc(doc)>>}

(***************************************************************************)
(* The web service.  LLM is the global of app/chat.py; store is the        *)
(* MongoDB collection, the messages of each session in stored order; sent  *)
(* is the message list of the most recent LLM.invoke; calls lists the      *)
(* chat_with_user calls that reached the LLM; files is DATA_DIR and        *)
(* SCRIPTS_DIR, file name -> content; response is the most recent HTTP     *)
(* response, with what the request held and what its handler read from    *)
(* outside (io); returned is, per dataset_id, the body of the most recent  *)
(* successful /upload_and_analyze response; requests counts the requests.  *)
(* A text is a sequence of strings.                                        *)
(***************************************************************************)
\* the message of the n-th request: each request brings a text of its own
UserMessages(n) == {"message " \o ToString(n)}

\* what LLM.invoke may answer to the n-th request: a reply of its own
Replies(n) == {"reply " \o ToString(n)}

\* LLM.invoke raising (network, quota, ...)
LLMError == "LLM error"

SystemMessage(content) == [type |-> "system", content |-> content]
HumanMessage(content) == [type |-> "human", content |-> <<content>>]
AIMessage(content) == [type |-> "ai", content |-> <<content>>]

\* bool(x) of an Optional[str]: None and "" are false
Truthy(x) == x.given /\ x.text # <<>>

SystemPrompt == "You are a helpful assistant specialized in data quality checks ..."
ContextIntro == "Here is tabular context and an error report provided by the user ..."

\* mutant of SystemContent: the context appended whenever it is not None
SystemContentNotNone(excel_context) ==
  <<SystemPrompt>>
  \o (IF excel_context.given THEN <<ContextIntro>> \o excel_context.text ELSE <<>>)

\* system_content: the prompt, and the context when excel_context is truthy
SystemContent(excel_context) ==
  <<SystemPrompt>>
  \o (IF Truthy(excel_context) THEN <<ContextIntro>> \o excel_context.text ELSE <<>>)

\* mutant of MessagesFor: the new user message placed before the history
MessagesUserFirst(history, user_message, excel_context) ==
  <<SystemMessage(SystemContent(excel_context))>>
  \o <<HumanMessage(user_message)>> \o history

\* messages: the system message, then the history, then the user message
MessagesFor(history, user_message, excel_context) ==
  <<SystemMessage(SystemContent(excel_context))>>
  \o history \o <<HumanMessage(user_message)>>

\* history.add_user_message(message) with the system message stored too
add_user_message_with_system(history, message) ==
  history \o <<SystemMessage(<<SystemPrompt>>), HumanMessage(message)>>

\* history.add_user_message(message): one insert
add_user_message(history, message) == Append(history, HumanMessage(message))

\* history.add_ai_message(content): one insert
add_ai_message(history, content) == Append(history, AIMessage(content))

\* an HTTP response (or what a function called on its own gave) to request n
Respond(endpoint, n, status, body, io) ==
  [endpoint |-> endpoint, n |-> n, status |-> status, body |-> body, io |-> io]

\* a function is called on its own, no request being in progress
Served ==
  /\ \A t \in ThreadIds : threads[t].at = "idle"
  /\ requests < MaxRequests
  /\ requests' = requests + 1
  /\ UNCHANGED datavars
  /\ UNCHANGED <<app, overlaps, threads>>

\* the names main.py:8-14 imports from app/dataset_store.py, and the names
\* that module defines
ImportedFromDatasetStore ==
  {"generate_dataset_id", "infer_delimiter", "load_dataset_metadata",
   "persist_dataset_file", "resolve_raw_path"}

DatasetStoreNames ==
  {"ALLOWED_EXTENSIONS", "generate_dataset_id", "normalize_extension", "infer_file_type",
   "infer_delimiter", "persist_dataset_file"}

\* import app.main (main.py:1-31).  With app/dataset_store.py as it is the
\* import raises ImportError and no endpoint exists; the service runs where
\* the names it lacks (used at main.py:163-164 only) are provided, as
\* app/tools.py has to be
ImportMain ==
  /\ app = "not imported"
  /\ \E provided \in {{}, ImportedFromDatasetStore \ DatasetStoreNames} :
       app' = IF ImportedFromDatasetStore \subseteq DatasetStoreNames \cup provided
              THEN "FastAPI" ELSE "ImportError"
  /\ UNCHANGED <<LLM, store, sent, calls, files, response, returned, requests, overlaps,
                 threads>>
  /\ UNCHANGED datavars

\* @app.on_event("startup"): init_llm()
Startup ==
  /\ app = "FastAPI"
  /\ LLM = "None"
  /\ LLM' = "ChatAnthropic"
  /\ UNCHANGED <<app, overlaps, store, sent, calls, files, response, returned, requests,
                 threads>>
  /\ UNCHANGED datavars

(***************************************************************************)
(* The requests in progress.  chat and chat_dataset are plain functions,   *)
(* which FastAPI runs in pool threads; chat_excel, upload_and_analyze and  *)
(* upload_dataset are coroutines, which run on the event loop: after their *)
(* await file.read() nothing in them awaits, so one of them at a time runs *)
(* from there to its return, beside the pool threads.  A step of a request *)
(* is what it does between two accesses to what the requests share (the    *)
(* message store, the files, the LLM).                                     *)
(***************************************************************************)
LoopEndpoints == {"/chat_excel", "/upload_and_analyze", "/datasets"}

\* no other coroutine is between its await and its return
LoopFree(t) ==
  \A u \in ThreadIds \ {t} :
     threads[u].at = "idle" \/ threads[u].endpoint \notin LoopEndpoints

\* request u is in chat_with_user for session s, its history read
InChatWithUser(u, s) ==
  /\ threads[u].at \in {"invoke", "add_user_message", "add_ai_message"}
  /\ threads[u].io.session_id = s

\* request number requests + 1 arrives and is served in slot t, the first
\* idle slot; overlaps counts the requests that arrived while another was in
\* progress
Arrives(t) ==
  LET busy == \E u \in ThreadIds \ {t} : threads[u].at # "idle"
  IN /\ app = "FastAPI"
     /\ threads[t].at = "idle"
     /\ \A k, l \in 1..Len(SlotOrder) :
          (SlotOrder[l] = t /\ k < l) => threads[SlotOrder[k]].at # "idle"
     /\ requests < MaxRequests
     /\ requests' = requests + 1
     /\ busy => overlaps < MaxOverlaps
     /\ overlaps' = IF busy THEN overlaps + 1 ELSE overlaps
     /\ UNCHANGED datavars

Request(endpoint, io) == [Idle EXCEPT !.endpoint = endpoint, !.n = requests + 1, !.io = io]

Step(t, local) == threads' = [threads EXCEPT ![t] = local]

\* the request of slot t ends with a response
Ends(t, status, body) ==
  /\ Step(t, Idle)
  /\ response' = Respond(threads[t].endpoint, threads[t].n, status, body, threads[t].io)

\* chat_with_user, lines 58-91, for the request `local`: RuntimeError
\* without LLM (the endpoint answers 500); else the history is read and the
\* message list built
chat_with_user(t, local) ==
  IF LLM = "None"
  THEN /\ Step(t, Idle)
       /\ response' = Respond(local.endpoint, local.n, 500, <<>>, local.io)
  ELSE /\ Step(t, [local EXCEPT
                     !.at = "invoke",
                     !.messages = MessagesFor(store[local.io.session_id],
                                              local.io.message, local.excel_context),
                     !.overlapped = \E u \in ThreadIds \ {t} :
                                       InChatWithUser(u, local.io.session_id)])
       /\ UNCHANGED response

\* POST /chat, for the sessions of `sessions`
chat(t, sessions) ==
  \E session_id \in sessions, message \in UserMessages(requests + 1) :
    /\ Arrives(t)
    /\ chat_with_user(t, Request("/chat", [session_id |-> session_id, message |-> message]))
    /\ UNCHANGED <<app, LLM, store, sent, calls, files, returned>>

\* chat_with_user, line 94: LLM.invoke(messages) returns a reply or raises
ChatInvoke(t) ==
  \E answer \in Replies(threads[t].n) \cup {LLMError} :
    LET local == threads[t]
    IN /\ local.at = "invoke"
       /\ sent' = local.messages
       /\ calls' = Append(calls, [endpoint |-> local.endpoint, n |-> local.n,
                                  session_id |-> local.io.session_id,
                                  user_message |-> local.io.message,
                                  excel_context |-> local.excel_context,
                                  answer |-> answer, overlapped |-> local.overlapped])
       /\ IF answer = LLMError
          THEN Ends(t, 500, <<>>)
          ELSE /\ Step(t, [local EXCEPT !.at = "add_user_message", !.reply = answer])
               /\ UNCHANGED response
       /\ UNCHANGED <<app, overlaps, LLM, store, files, returned, requests>>
       /\ UNCHANGED datavars

\* chat_with_user, line 97: history.add_user_message(user_message)
ChatAddUserMessage(t) ==
  LET local == threads[t]
  IN /\ local.at = "add_user_message"
     /\ store' = [store EXCEPT ![local.io.session_id] =
                    add_user_message(@, local.io.message)]
     /\ Step(t, [local EXCEPT !.at = "add_ai_message"])
     /\ UNCHANGED <<app, overlaps, LLM, sent, calls, files, response, returned, requests>>
     /\ UNCHANGED datavars

\* chat_with_user, lines 98-100, and the endpoint's return:
\* history.add_ai_message(ai_msg.content), ChatResponse(reply=reply)
ChatAddAiMessage(t) ==
  LET local == threads[t]
  IN /\ local.at = "add_ai_message"
     /\ store' = [store EXCEPT ![local.io.session_id] = add_ai_message(@, local.reply)]
     /\ Ends(t, 200, <<local.reply>>)
     /\ UNCHANGED <<app, overlaps, LLM, sent, calls, files, returned, requests>>
     /\ UNCHANGED datavars

\* an uploaded file: its name (stem and suffix) and its bytes, which are a
\* workbook or a CSV holding a table, or nothing
Upload(stem, suffix, kind, table) ==
  [stem |-> stem, suffix |-> suffix, kind |-> kind, table |-> table]

\* str.lower() on the suffixes of the modelled file names
LowerSuffix(suffix) ==
  CASE suffix = ".XLS" -> ".xls" [] suffix = ".CSV" -> ".csv"
    [] suffix = ".Xlsx" -> ".xlsx" [] suffix = ".TXT" -> ".txt" [] OTHER -> suffix

\* pd.read_excel / pd.read_csv raise on bytes that are not of their format
ReadExcelRaises(file) == file.kind # "excel"
ReadCsvRaises(file) == file.kind # "csv"

max_rows == 50

\* the columns of the workbooks in the order of the sheet
WorkbookOrder == <<"A", "B">>

\* list(df.columns)
ColNames(d) ==
  LET present == LabelsWhere([k \in 1..Len(WorkbookOrder) |-> WorkbookOrder[k] \in d.columns],
                             Len(WorkbookOrder))
  IN [k \in 1..Len(present) |-> WorkbookOrder[present[k] + 1]]

\* the dtype pd.read_excel gives a column: object when it holds a text,
\* float64 when it holds numbers and empty cells, int64 when numbers only
ColumnDtype(d, c) ==
  IF \E i \in 1..NRows(d) : d.rows[i][c].kind = "str" THEN "object"
  ELSE IF \E i \in 1..NRows(d) : isna(d.rows[i][c]) THEN "float64"
  ELSE "int64"

\* str(val) of a cell of column c in a row given by df.iterrows(): the row
\* is one Series, so the numbers of a frame without object column are all
\* floats as soon as one column is float64; beside an object column each
\* number keeps the type of its column
StrOfCell(d, c, x) ==
  LET dtypes == {ColumnDtype(d, col) : col \in d.columns}
      as_float == IF "object" \in dtypes THEN ColumnDtype(d, c) = "float64"
                  ELSE "float64" \in dtypes
  IN IF x.kind # "int" THEN x.v
     ELSE IF as_float THEN <<ToString(x.v) \o ".0">>
     ELSE <<ToString(x.v)>>

\* sep.join(parts) for parts that are texts
RECURSIVE Join(_, _)
Join(sep, parts) ==
  IF parts = <<>> THEN <<>>
  ELSE IF Len(parts) = 1 THEN parts[1]
  ELSE parts[1] \o <<sep>> \o Join(sep, Tail(parts))

\* the "Ligne n : col = val; ..." lines of the first n rows of d, one for
\* each row that has a value
RECURSIVE RowLines(_, _, _)
RowLines(d, col_names, n) ==
  IF n = 0 THEN <<>>
  ELSE LET present == LabelsWhere([k \in 1..Len(col_names) |->
                                     ~isna(d.rows[n][col_names[k]])], Len(col_names))
           row_parts == [k \in 1..Len(present) |->
                           <<col_names[present[k] + 1], " = ">>
                           \o StrOfCell(d, col_names[present[k] + 1],
                                        d.rows[n][col_names[present[k] + 1]])]
       IN RowLines(d, col_names, n - 1)
          \o (IF row_parts = <<>> THEN <<>>
              ELSE <<<<"Ligne ", ToString(n), " : ">> \o Join("; ", row_parts)>>)

\* build_excel_context on a readable workbook: the frame is read whole (its
\* dtypes are those of all its rows), then cut to its first max_rows rows
build_excel_context(file) ==
  LET d == file.table
      shown == IF NRows(d) > max_rows THEN max_rows ELSE NRows(d)
      col_names == ColNames(d)
      filename == file.stem \o file.suffix
      lines == << <<"Les données suivantes proviennent du fichier Excel : ",
                    IF filename # "" THEN filename ELSE "fichier_sans_nom", ".">>,
                  <<"Colonnes : ">>
                  \o Join(", ", [k \in 1..Len(col_names) |-> <<col_names[k]>>])
                  \o <<".">>,
                  <<"Voici un aperçu des lignes :">> >>
               \o RowLines(d, col_names, shown)
  IN Join("\n", lines)

\* the files sent to /chat_excel
ExcelUploads ==
  {Upload("g", ".XLS", "excel",
          Table({"A", "B"}, <<("A" :> Num(1)) @@ ("B" :> Num(2)),
                              ("A" :> Num(3)) @@ ("B" :> NaN)>>)),
   Upload("f", ".xlsx", "empty", Table({}, <<>>)),
   Upload("f", ".csv", "csv", Table({"A"}, <<>>))}

\* POST /chat_excel: the suffix test, await file.read(), build_excel_context
\* and chat_with_user up to its message list, for the sessions of `sessions`
\* and the files of `uploads`
chat_excel(t, sessions, uploads) ==
  \E session_id \in sessions, message \in UserMessages(requests + 1), file \in uploads :
    LET local == Request("/chat_excel",
                         [session_id |-> session_id, message |-> message,
                          filename |-> file.stem \o file.suffix])
        failed(status) == /\ UNCHANGED threads
                          /\ response' = Respond(local.endpoint, local.n, status, <<>>,
                                                 local.io)
    IN
    /\ Arrives(t)
    /\ LoopFree(t)
    /\ IF LowerSuffix(file.suffix) \notin {".xlsx", ".xls"} THEN failed(400)
       ELSE IF ReadExcelRaises(file) THEN failed(500)
       ELSE chat_with_user(t, [local EXCEPT
                                 !.excel_context = Text(build_excel_context(file))])
    /\ UNCHANGED <<app, LLM, store, sent, calls, files, returned>>

\* text mode of subprocess.run and of read_text: "\r\n" and "\r" are read
\* as "\n"
RECURSIVE UniversalNewlines(_)
UniversalNewlines(b) ==
  IF b = <<>> THEN <<>>
  ELSE IF Head(b) = "\r"
       THEN <<"\n">> \o UniversalNewlines(IF Len(b) > 1 /\ b[2] = "\n"
                                           THEN Tail(Tail(b)) ELSE Tail(b))
       ELSE <<Head(b)>> \o UniversalNewlines(Tail(b))

\* Path.write_text(text, encoding="utf-8") on POSIX: "\n" is written as it is
WriteText(text) == text

\* Path.read_text(encoding="utf-8")
ReadText(bytes) == UniversalNewlines(bytes)

\* the file system, file name -> content.  Path.write_bytes and
\* Path.write_text open the file, which creates it or empties it, and then
\* write: OpenFile is the file system once the file is open, empty (no bytes,
\* or no text), WriteFile the file system once the content is written
WriteFile(fs, name, content) ==
  [n \in DOMAIN fs \cup {name} |-> IF n = name THEN content ELSE fs[n]]

NoBytes == [kind |-> "empty", table |-> Table({}, <<>>)]

OpenFile(fs, name, binary) == WriteFile(fs, name, IF binary THEN NoBytes ELSE <<>>)

Exists(fs, name) == name \in DOMAIN fs

\* what running the generated script gives: the bytes of its output and
\* error streams
Run(stdout, stderr) == [stdout |-> stdout, stderr |-> stderr]

\* generate_error_analysis_script raising (the LLM call inside it)
GenError == [stdout |-> <<"generate_error_analysis_script raised">>, stderr |-> <<>>]

\* error_report: stdout, or the error stream when stdout is blank
ErrorReport(result) ==
  IF Strip(result.stdout) = <<>> /\ result.stderr # <<>>
  THEN <<"SCRIPT RUNTIME ERROR:", "\n">> \o result.stderr
  ELSE result.stdout

\* the uploads sent to /upload_and_analyze with what the generation and the
\* run of the script do for each
UploadCases ==
  LET csv == Upload("data", ".CSV", "csv", Table({"A"}, <<>>))
      xlsx == Upload("data", ".xlsx", "excel", Table({"A"}, <<>>))
      found == Run(<<"E", "\r", "\n">>, <<"W", "\r", "\n">>)
  IN {<<csv, found>>,
      <<csv, Run(<<" ", "\r", "\n">>, <<"T", "\r", "\n">>)>>,
      <<csv, Run(<<>>, <<>>)>>,
      <<csv, GenError>>,
      <<xlsx, found>>,
      <<Upload("data", ".csv", "empty", Table({}, <<>>)), found>>,
      <<Upload("data", ".txt", "csv", Table({"A"}, <<>>)), found>>}

\* the uploads of a .csv file that are analysed to the end
ReportCases == {case \in UploadCases :
                  /\ case[1].suffix = ".CSV"
                  /\ case[2] # GenError
                  /\ case[2].stderr \in {<<>>, <<"W", "\r", "\n">>}}

\* POST /upload_and_analyze, lines 272-280: the suffix test, await
\* file.read() and the dataset file opened by write_bytes, for the uploads
\* of `uploads`
upload_and_analyze(t, uploads) ==
  \E upload \in uploads :
    LET dataset_id == upload[1]
        case == upload[2]
        file == case[1]
        suffix == LowerSuffix(file.suffix)
        dataset_path == dataset_id \o suffix
        result == [stdout |-> UniversalNewlines(case[2].stdout),
                   stderr |-> UniversalNewlines(case[2].stderr)]
        local == Request("/upload_and_analyze",
                         [dataset_id |-> dataset_id, filename |-> file.stem \o file.suffix,
                          dataset_path |-> dataset_path,
                          stdout |-> result.stdout, stderr |-> result.stderr])
        failed(status) == /\ UNCHANGED threads
                          /\ response' = Respond(local.endpoint, local.n, status, <<>>,
                                                 local.io)
    IN /\ Arrives(t)
       /\ LoopFree(t)
       /\ IF suffix \notin {".xlsx", ".xls", ".csv"}
          THEN /\ failed(400)
               /\ UNCHANGED files
          ELSE /\ files' = OpenFile(files, dataset_path, TRUE)
               /\ Step(t, [local EXCEPT !.at = "write_bytes", !.work = case])
               /\ UNCHANGED response
       /\ UNCHANGED <<app, LLM, store, sent, calls, returned>>

\* upload_and_analyze, lines 280-296: write_bytes writes the bytes, and the
\* file is read back with pandas
UploadWriteBytes(t) ==
  LET local == threads[t]
      file == local.work[1]
      suffix == LowerSuffix(file.suffix)
  IN /\ local.at = "write_bytes"
     /\ files' = WriteFile(files, local.io.dataset_path,
                           [kind |-> file.kind, table |-> file.table])
     /\ IF (suffix \in {".xlsx", ".xls"} /\ ReadExcelRaises(files'[local.io.dataset_path]))
           \/ (suffix = ".csv" /\ ReadCsvRaises(files'[local.io.dataset_path]))
        THEN Ends(t, 500, <<>>)
        ELSE /\ Step(t, [local EXCEPT !.at = "generate"])
             /\ UNCHANGED response
     /\ UNCHANGED <<app, overlaps, LLM, store, sent, calls, returned, requests>>
     /\ UNCHANGED datavars

\* upload_and_analyze, lines 299-307: generate_error_analysis_script (a call
\* of the LLM, which may raise), and the script opened by write_text
UploadGenerate(t) ==
  LET local == threads[t]
      script_path == "detect_errors_" \o local.io.dataset_id \o ".py"
  IN /\ local.at = "generate"
     /\ IF local.work[2] = GenError
        THEN /\ Ends(t, 500, <<>>)
             /\ UNCHANGED files
        ELSE /\ files' = OpenFile(files, script_path, FALSE)
             /\ Step(t, [local EXCEPT !.at = "write_script"])
             /\ UNCHANGED response
     /\ UNCHANGED <<app, overlaps, LLM, store, sent, calls, returned, requests>>
     /\ UNCHANGED datavars

\* upload_and_analyze, line 307: write_text writes the script
UploadWriteScript(t) ==
  LET local == threads[t]
      script_path == "detect_errors_" \o local.io.dataset_id \o ".py"
  IN /\ local.at = "write_script"
     /\ files' = WriteFile(files, script_path, WriteText(<<"script_code">>))
     /\ Step(t, [local EXCEPT !.at = "run"])
     /\ UNCHANGED <<app, overlaps, LLM, store, sent, calls, response, returned, requests>>
     /\ UNCHANGED datavars

\* upload_and_analyze, lines 310-323: the script is run, the report built
\* and its file opened by write_text
UploadRun(t) ==
  LET local == threads[t]
      result == [stdout |-> local.io.stdout, stderr |-> local.io.stderr]
      error_report_path == local.io.dataset_id \o "_errors.txt"
  IN /\ local.at = "run"
     /\ files' = OpenFile(files, error_report_path, FALSE)
     /\ Step(t, [local EXCEPT !.at = "write_report", !.work = ErrorReport(result)])
     /\ UNCHANGED <<app, overlaps, LLM, store, sent, calls, response, returned, requests>>
     /\ UNCHANGED datavars

\* upload_and_analyze, lines 323-334: write_text writes the report and the
\* body is returned (returned is set with the report: the body is fixed
\* from then on)
UploadWriteReport(t) ==
  LET local == threads[t]
      dataset_id == local.io.dataset_id
      error_report == local.work
      error_report_path == dataset_id \o "_errors.txt"
      body == [status |-> "ok", dataset_id |-> dataset_id,
               dataset_path |-> local.io.dataset_path,
               analysis_script_path |-> "detect_errors_" \o dataset_id \o ".py",
               error_report_path |-> error_report_path, error_report |-> error_report]
  IN /\ local.at = "write_report"
     /\ files' = WriteFile(files, error_report_path, WriteText(error_report))
     /\ Ends(t, 200, body)
     /\ returned' = [returned EXCEPT ![dataset_id] = body]
     /\ UNCHANGED <<app, overlaps, LLM, store, sent, calls, requests>>
     /\ UNCHANGED datavars

\* POST /chat_dataset, lines 345-368: the two exists() and pd.read_csv, for
\* the sessions of `sessions`
chat_dataset(t, sessions) ==
  \E session_id \in sessions, dataset_id \in DatasetIds,
     message \in UserMessages(requests + 1) :
    LET error_report_path == dataset_id \o "_errors.txt"
        dataset_path == dataset_id \o ".csv"
        local == Request("/chat_dataset",
                         [session_id |-> session_id, dataset_id |-> dataset_id,
                          message |-> message])
        failed(status) == /\ UNCHANGED threads
                          /\ response' = Respond(local.endpoint, local.n, status, <<>>,
                                                 local.io)
    IN /\ Arrives(t)
       /\ IF ~Exists(files, error_report_path) \/ ~Exists(files, dataset_path)
          THEN failed(404)
          ELSE IF ReadCsvRaises(files[dataset_path])
          THEN failed(500)
          ELSE /\ Step(t, [local EXCEPT !.at = "read_text"])
               /\ UNCHANGED response
       /\ UNCHANGED <<app, LLM, store, sent, calls, files, returned>>

\* chat_dataset, line 371: error_report_path.read_text(encoding="utf-8")
ChatDatasetReadText(t) ==
  LET local == threads[t]
      error_report == ReadText(files[local.io.dataset_id \o "_errors.txt"])
  IN /\ local.at = "read_text"
     /\ Step(t, [local EXCEPT !.at = "chat_with_user",
                              !.excel_context = Text(error_report)])
     /\ UNCHANGED <<app, overlaps, LLM, store, sent, calls, files, response, returned, requests>>
     /\ UNCHANGED datavars

\* chat_dataset, lines 386-390: chat_with_user is entered
ChatDatasetCall(t) ==
  /\ threads[t].at = "chat_with_user"
  /\ chat_with_user(t, threads[t])
  /\ UNCHANGED <<app, overlaps, LLM, store, sent, calls, files, returned, requests>>
  /\ UNCHANGED datavars

(***************************************************************************)
(* app/dataset_store.py and POST /datasets.                                *)
(***************************************************************************)
ALLOWED_EXTENSIONS == {".csv", ".xls", ".xlsx"}

\* Path(filename).suffix.lower(), or ValueError
normalize_extension(file) ==
  LET suffix == LowerSuffix(file.suffix)
  IN IF suffix \notin ALLOWED_EXTENSIONS THEN Raise("ValueError") ELSE [value |-> suffix]

infer_file_type(extension) == IF extension = ".csv" THEN "csv" ELSE "excel"

\* csv.Sniffer finds no delimiter in the one-column and empty files of the
\* model: the fallback
infer_delimiter(file) == ","

\* dataset_dir.mkdir(parents=True, exist_ok=True): a directory is the entry
\* of its path with a trailing "/"
Mkdir(fs, dir) == IF Exists(fs, dir) THEN fs ELSE WriteFile(fs, dir, <<>>)

\* persist_dataset_file with the directory made before the extension is
\* looked at
persist_dataset_file_mkdir_first(fs, dataset_id, file, delimiter) ==
  LET extension == normalize_extension(file)
      dataset_dir == dataset_id \o "/"
  IN IF Raised(extension)
     THEN [ret |-> extension, writes |-> <<>>, files |-> Mkdir(fs, dataset_dir)]
     ELSE LET raw_path == dataset_dir \o "raw" \o extension.value
              metadata == [dataset_id |-> dataset_id,
                           original_filename |-> file.stem \o file.suffix,
                           stored_file |-> "data/" \o raw_path,
                           file_type |-> infer_file_type(extension.value),
                           delimiter |-> IF extension.value = ".csv" THEN delimiter
                                         ELSE "None"]
              file_bytes == [kind |-> file.kind, table |-> file.table]
              raw == WriteFile(Mkdir(fs, dataset_dir), raw_path, file_bytes)
          IN [ret |-> metadata,
              writes |-> <<[path |-> raw_path, binary |-> TRUE, content |-> file_bytes],
                           [path |-> dataset_dir \o "metadata.json", binary |-> FALSE,
                            content |-> WriteText(<<metadata>>)]>>,
              files |-> WriteFile(raw, dataset_dir \o "metadata.json",
                                  WriteText(<<metadata>>))]

\* persist_dataset_file(DATA_DIR, dataset_id, original_filename, file_bytes,
\* content_type, delimiter): what it returns or raises, the files it writes
\* after the mkdir, in order, and the files after it (size, content type and
\* upload time are left out of the metadata)
persist_dataset_file(fs, dataset_id, file, delimiter) ==
  LET extension == normalize_extension(file)
  IN IF Raised(extension) THEN [ret |-> extension, writes |-> <<>>, files |-> fs]
     ELSE LET dataset_dir == dataset_id \o "/"
              raw_path == dataset_dir \o "raw" \o extension.value
              metadata == [dataset_id |-> dataset_id,
                           original_filename |-> file.stem \o file.suffix,
                           stored_file |-> "data/" \o raw_path,
                           file_type |-> infer_file_type(extension.value),
                           delimiter |-> IF extension.value = ".csv" THEN delimiter
                                         ELSE "None"]
              file_bytes == [kind |-> file.kind, table |-> file.table]
              raw == WriteFile(Mkdir(fs, dataset_dir), raw_path, file_bytes)
          IN [ret |-> metadata,
              writes |-> <<[path |-> raw_path, binary |-> TRUE, content |-> file_bytes],
                           [path |-> dataset_dir \o "metadata.json", binary |-> FALSE,
                            content |-> WriteText(<<metadata>>)]>>,
              files |-> WriteFile(raw, dataset_dir \o "metadata.json",
                                  WriteText(<<metadata>>))]

\* generate_dataset_id(): uuid4, a fresh identifier at each request
generate_dataset_id == "dataset_" \o ToString(requests + 1)

\* the files sent to /datasets and to persist_dataset_file
StoreUploads ==
  {Upload("data", ".csv", "csv", Table({"A"}, <<>>)),
   Upload("data", ".Xlsx", "excel", Table({"A"}, <<>>)),
   Upload("data", ".XLS", "empty", Table({}, <<>>)),
   Upload("data", ".TXT", "csv", Table({"A"}, <<>>)),
   Upload("data", ".json", "empty", Table({}, <<>>)),
   Upload("data", "", "csv", Table({"A"}, <<>>)),
   Upload("", "", "csv", Table({"A"}, <<>>))}

\* POST /datasets, lines 89-98 and persist_dataset_file up to its mkdir: the
\* tests of the name, await file.read(), the extension and the directory,
\* for the files of `uploads`
upload_dataset(t, uploads) ==
  \E file \in uploads :
    LET filename == file.stem \o file.suffix
        extension == LowerSuffix(file.suffix)
        delimiter == IF extension = ".csv" THEN infer_delimiter(file) ELSE "None"
        dataset_id == generate_dataset_id
        r == persist_dataset_file(files, dataset_id, file, delimiter)
        local == Request("/datasets", [dataset_id |-> dataset_id, filename |-> filename])
        failed(status) == /\ UNCHANGED threads
                          /\ response' = Respond(local.endpoint, local.n, status, <<>>,
                                                 local.io)
    IN /\ Arrives(t)
       /\ LoopFree(t)
       /\ IF filename = "" \/ extension \notin {".csv", ".xlsx", ".xls"}
          THEN /\ failed(400)
               /\ UNCHANGED files
          ELSE IF Raised(r.ret)
          THEN /\ failed(500)
               /\ files' = r.files
          ELSE /\ files' = Mkdir(files, dataset_id \o "/")
               /\ Step(t, [local EXCEPT
                              !.at = "open", !.work = r.writes,
                              !.body = [dataset_id |-> dataset_id, file_name |-> filename,
                                        file_type |-> r.ret.file_type,
                                        delimiter |-> r.ret.delimiter,
                                        storage_path |-> r.ret.stored_file]])
               /\ UNCHANGED response
       /\ UNCHANGED <<app, LLM, store, sent, calls, returned>>

\* persist_dataset_file, lines 61 and 75: write_bytes or write_text opens
\* the next file
PersistOpen(t) ==
  LET local == threads[t]
  IN /\ local.at = "open"
     /\ files' = OpenFile(files, local.work[1].path, local.work[1].binary)
     /\ Step(t, [local EXCEPT !.at = "write"])
     /\ UNCHANGED <<app, overlaps, LLM, store, sent, calls, response, returned, requests>>
     /\ UNCHANGED datavars

\* persist_dataset_file, lines 61 and 75: the content is written; after the
\* metadata, lines 108-116 of main.py: the response
PersistWrite(t) ==
  LET local == threads[t]
  IN /\ local.at = "write"
     /\ files' = WriteFile(files, local.work[1].path, local.work[1].content)
     /\ IF Len(local.work) > 1
        THEN /\ Step(t, [local EXCEPT !.at = "open", !.work = Tail(@)])
             /\ UNCHANGED response
        ELSE Ends(t, 200, local.body)
     /\ UNCHANGED <<app, overlaps, LLM, store, sent, calls, returned, requests>>
     /\ UNCHANGED datavars

\* persist_dataset_file called on its own
CallPersistDatasetFile ==
  \E dataset_id \in DatasetIds, file \in StoreUploads :
    LET r == persist_dataset_file(files, dataset_id, file, ",")
    IN /\ Served
       /\ response' = Respond("persist_dataset_file", requests + 1, 0, r.ret,
                              [dataset_id |-> dataset_id,
                               filename |-> file.stem \o file.suffix])
       /\ files' = r.files
       /\ UNCHANGED <<LLM, store, sent, calls, returned>>

\* the data-quality script is not run
DataIdle ==
  /\ df = Table({}, <<>>)
  /\ loaded = df
  /\ last = NoCall
  /\ pc = "app"
  /\ all_messages = <<>>
  /\ all_issues = <<>>
  /\ json_file = NoFile

InitApp == DataIdle /\ AppInit

\* the service with its chat endpoints
NextChat ==
  \/ ImportMain
  \/ Startup
  \/ \E t \in ThreadIds : chat(t, SessionIds)
  \/ \E t \in ThreadIds : chat_excel(t, SessionIds, ExcelUploads)
  \/ \E t \in ThreadIds : ChatInvoke(t)
  \/ \E t \in ThreadIds : ChatAddUserMessage(t)
  \/ \E t \in ThreadIds : ChatAddAiMessage(t)
SpecChat == InitApp /\ [][NextChat]_vars

\* the service with its dataset endpoints, the chats being of session "s1"
NextDataset ==
  \/ ImportMain
  \/ Startup
  \/ \E t \in ThreadIds : upload_and_analyze(t, DatasetIds \X UploadCases)
  \/ \E t \in ThreadIds : UploadWriteBytes(t)
  \/ \E t \in ThreadIds : UploadGenerate(t)
  \/ \E t \in ThreadIds : UploadWriteScript(t)
  \/ \E t \in ThreadIds : UploadRun(t)
  \/ \E t \in ThreadIds : UploadWriteReport(t)
  \/ \E t \in ThreadIds : chat_dataset(t, {"s1"})
  \/ \E t \in ThreadIds : ChatDatasetReadText(t)
  \/ \E t \in ThreadIds : ChatDatasetCall(t)
  \/ \E t \in ThreadIds : ChatInvoke(t)
  \/ \E t \in ThreadIds : ChatAddUserMessage(t)
  \/ \E t \in ThreadIds : ChatAddAiMessage(t)
SpecDataset == InitApp /\ [][NextDataset]_vars

\* the service with its five POST endpoints (GET /health touches nothing;
\* GET /datasets/{dataset_id}/understanding calls two functions that
\* app/dataset_store.py does not define): the chats are of session "s1", the
\* files sent are a workbook to /chat_excel and a .csv file to /datasets, and
\* the uploads analysed are those of dataset "1" that give a report
NextApp ==
  \/ ImportMain
  \/ Startup
  \/ \E t \in ThreadIds : chat(t, {"s1"})
  \/ \E t \in ThreadIds :
        chat_excel(t, {"s1"}, {file \in ExcelUploads : file.kind = "excel"})
  \/ \E t \in ThreadIds :
        upload_dataset(t, {file \in StoreUploads : file.suffix = ".csv"})
  \/ \E t \in ThreadIds : PersistOpen(t)
  \/ \E t \in ThreadIds : PersistWrite(t)
  \/ \E t \in ThreadIds : upload_and_analyze(t, {"1"} \X ReportCases)
  \/ \E t \in ThreadIds : UploadWriteBytes(t)
  \/ \E t \in ThreadIds : UploadGenerate(t)
  \/ \E t \in ThreadIds : UploadWriteScript(t)
  \/ \E t \in ThreadIds : UploadRun(t)
  \/ \E t \in ThreadIds : UploadWriteReport(t)
  \/ \E t \in ThreadIds : chat_dataset(t, {"s1"})
  \/ \E t \in ThreadIds : ChatDatasetReadText(t)
  \/ \E t \in ThreadIds : ChatDatasetCall(t)
  \/ \E t \in ThreadIds : ChatInvoke(t)
  \/ \E t \in ThreadIds : ChatAddUserMessage(t)
  \/ \E t \in ThreadIds : ChatAddAiMessage(t)
SpecApp == InitApp /\ [][NextApp]_vars

\* the service with its upload endpoints and the dataset store
NextStore ==
  \/ ImportMain
  \/ \E t \in ThreadIds : upload_dataset(t, StoreUploads)
  \/ \E t \in ThreadIds : PersistOpen(t)
  \/ \E t \in ThreadIds : PersistWrite(t)
  \/ \E t \in ThreadIds : upload_and_analyze(t, DatasetIds \X UploadCases)
  \/ \E t \in ThreadIds : UploadWriteBytes(t)
  \/ \E t \in ThreadIds : UploadGenerate(t)
  \/ \E t \in ThreadIds : UploadWriteScript(t)
  \/ \E t \in ThreadIds : UploadRun(t)
  \/ \E t \in ThreadIds : UploadWriteReport(t)
  \/ CallPersistDatasetFile
SpecStore == InitApp /\ [][NextStore]_vars

\* _parse_analysis_response called once on a response
CallParseAnalysisResponse ==
  /\ response = NoResponse
  /\ Served
  /\ \E doc \in Documents(MaxIssues), dataset_id \in DatasetIds :
       \E response_text \in Wrappings(doc) :
          response' = Respond("_parse_analysis_response", requests + 1, 0,
                              _parse_analysis_response(response_text, dataset_id),
                              [response_text |-> response_text, dataset_id |-> dataset_id])
  /\ UNCHANGED <<LLM, store, sent, calls, files, returned>>

\* the parsing of the analysis responses
NextParse == CallParseAnalysisResponse
SpecParse == InitApp /\ [][NextParse]_vars

\* /chat alone
NextThreads ==
  \/ ImportMain
  \/ Startup
  \/ \E t \in ThreadIds : chat(t, SessionIds)
  \/ \E t \in ThreadIds : ChatInvoke(t)
  \/ \E t \in ThreadIds : ChatAddUserMessage(t)
  \/ \E t \in ThreadIds : ChatAddAiMessage(t)
SpecThreads == InitApp /\ [][NextThreads]_vars

(***************************************************************************)
(* Claims.                                                                 *)
(***************************************************************************)
CheckNames ==
  {"check_missing_values", "check_duplicates", "check_product_whitespace",
   "check_supplier_variations", "check_category_drifts", "check_near_duplicate_rows"}

\* what a check returns on table d
RunCheck(fn, d) ==
  CASE fn = "check_missing_values" -> check_missing_values(d).ret
    [] fn = "check_duplicates" -> check_duplicates(d).ret
    [] fn = "check_product_whitespace" -> check_product_whitespace(d).ret
    [] fn = "check_supplier_variations" -> check_supplier_variations(d).ret
    [] fn = "check_category_drifts" -> check_category_drifts(d).ret
    [] fn = "check_near_duplicate_rows" -> check_near_duplicate_rows(d).ret

\* the last call was fn and it returned (did not raise)
Returned(fn) == last.fn = fn /\ ~Raised(last.ret)

\* the lignes of the first issue a check returned, <<>> when it returned none
LignesOf(ret) == IF ret.issues = <<>> THEN <<>> ELSE ret.issues[1].lignes

\* C1: each of the six checks leaves the table it is given unchanged: after
\* any sequence of check calls the table has the rows, columns and cell
\* values it had when it was loaded.
C1_TableUnchanged == df = loaded

C1_Witness ==
  /\ Returned("check_duplicates")
  /\ last.ret.issues # <<>>
  /\ "Barcode" \in df.columns
  /\ "Sale Date" \in df.columns
  /\ RunCheck("check_near_duplicate_rows", df).issues # <<>>

\* C2: the checks have no ordering dependency: whatever calls came before,
\* the last call returned what it returns on the freshly loaded table, and
\* so would every check called next.
C2_NoOrderingDependency ==
  /\ last.fn \in CheckNames => last.ret = RunCheck(last.fn, loaded)
  /\ \/ df = loaded
     \/ \A fn \in CheckNames : RunCheck(fn, df) = RunCheck(fn, loaded)

C2_Witness ==
  /\ Returned("check_near_duplicate_rows")
  /\ last.ret.issues # <<>>
  /\ RunCheck("check_duplicates", df).issues # <<>>
  /\ RunCheck("check_missing_values", df).issues # <<>>

\* what the checks that do not fail on the loaded table find, in main's order
RECURSIVE IssuesOfHealthyChecks(_, _)
IssuesOfHealthyChecks(order, d) ==
  IF order = <<>> THEN <<>>
  ELSE (IF Raised(RunCheck(Head(order), d)) THEN <<>> ELSE RunCheck(Head(order), d).issues)
       \o IssuesOfHealthyChecks(Tail(order), d)

MainOrder ==
  <<"check_missing_values", "check_duplicates", "check_product_whitespace",
    "check_supplier_variations", "check_category_drifts", "check_near_duplicate_rows">>

\* C3: no failure propagation between checks: once main has stopped, with
\* one check failed or none, the findings of every other check are in the
\* JSON file it wrote.
C3_NoFailurePropagation ==
  pc \in {"done", "crashed"} =>
    /\ json_file.written
    /\ json_file.content = IssuesOfHealthyChecks(MainOrder, loaded)

\* the column a check keys on is absent or unusable in table d
KeyUnusable(fn, d) ==
  CASE fn = "check_missing_values" -> "Product" \notin d.columns
    [] fn = "check_duplicates" -> FALSE
    [] fn = "check_product_whitespace" ->
         "Product" \notin d.columns \/ Dtype(d, "Product") # "object"
    [] fn = "check_supplier_variations" -> "OrderList" \notin d.columns
    [] fn = "check_category_drifts" ->
         "Product" \notin d.columns \/ "Dept Fullname" \notin d.columns
    [] fn = "check_near_duplicate_rows" ->
         "Sale Date" \notin d.columns
         \/ \E i \in 1..NRows(d) : d.rows[i]["Sale Date"].kind = "str"

\* C4: each check guards its own inputs: on a table that lacks columns, or
\* whose Product is not text, or whose Sale Date does not parse, a check
\* returns without raising, and returns nothing when its key column is
\* unusable.
C4_ChecksGuardInputs ==
  last.fn \in CheckNames =>
    /\ ~Raised(last.ret)
    /\ KeyUnusable(last.fn, loaded) => last.ret = Return(<<>>, <<>>)

\* a text that holds only whitespace (the empty text included)
IsBlank(s) == \A i \in 1..Len(s) : s[i] \in Whitespace

\* a text that is `word` with whitespace around it
IsPadded(s, word) ==
  \E i \in 1..(Len(s) + 1), j \in 0..Len(s) :
     /\ SubSeq(s, i, j) = word
     /\ IsBlank(SubSeq(s, 1, i - 1))
     /\ IsBlank(SubSeq(s, j + 1, Len(s)))

\* the Product values C5 calls missing
MissingProduct(x) ==
  \/ x.kind = "nan"
  \/ /\ x.kind = "str"
     /\ \/ IsBlank(x.v)
        \/ IsPadded(x.v, <<"N", "U", "L", "L">>)
        \/ IsPadded(x.v, <<"n", "u", "l", "l">>)

MissingRows(d) ==
  IF "Product" \notin d.columns THEN {}
  ELSE {i \in 1..NRows(d) : MissingProduct(d.rows[i]["Product"])}

\* C5: check_missing_values reports a row under 'Missing Product Names' iff
\* its Product is null, empty, whitespace-only or 'NULL'/'null' after
\* stripping; the count of the message is the number of lignes and is
\* count_missing_product_names of the table; with no such row it returns no
\* message and no issue.
C5_MissingRowsReported ==
  /\ Returned("check_missing_values") =>
       /\ DOMAIN LignesOf(last.ret) = {ToString(i - 1) : i \in MissingRows(loaded)}
       /\ MissingRows(loaded) = {} => last.ret = Return(<<>>, <<>>)
       /\ MissingRows(loaded) # {} =>
            /\ Len(last.ret.messages) = 1 /\ Len(last.ret.issues) = 1
            /\ last.ret.issues[1].type_erreur = "Missing Product Names"
            /\ last.ret.messages[1].count = Cardinality(DOMAIN LignesOf(last.ret))
            /\ last.ret.messages[1].count = count_missing_product_names(loaded)
  /\ last.fn = "count_missing_product_names" =>
       last.ret = Cardinality(MissingRows(loaded))

C5_Witness ==
  /\ Returned("check_missing_values")
  /\ last.ret.issues # <<>>
  /\ NRows(loaded) = 2
  /\ loaded.rows[1]["Product"] = Str(<<" ", "n", "u", "l", "l">>)
  /\ loaded.rows[2]["Product"] = Str(<<"a">>)
  /\ DOMAIN LignesOf(last.ret) = {"0"}

\* the Products a correction may be imputed from for row i: those of the
\* rows with the same Barcode whose Product is not missing
Donors(d, i) ==
  IF "Barcode" \notin d.columns \/ isna(d.rows[i]["Barcode"]) THEN {}
  ELSE {j \in 1..NRows(d) :
          d.rows[j]["Barcode"] = d.rows[i]["Barcode"]
          /\ ~MissingProduct(d.rows[j]["Product"])}

\* C6: the correction proposed for a reported row is the most frequent
\* Product among the rows with the same Barcode whose Product is not
\* missing, None when there is no such row or no Barcode column, and never
\* a missing-like value.
C6_ImputedFromBarcode ==
  Returned("check_missing_values") =>
    \A i \in MissingRows(loaded) :
       LET proposed == LignesOf(last.ret)[ToString(i - 1)].correction["Product"]
           donors == Donors(loaded, i)
           freq(x) == Cardinality({j \in donors : loaded.rows[j]["Product"] = x})
       IN IF donors = {} THEN proposed = None
          ELSE /\ proposed \in {loaded.rows[j]["Product"] : j \in donors}
               /\ \A j \in donors : freq(loaded.rows[j]["Product"]) <= freq(proposed)

\* the rows that have an identical other row
RowsWithTwin(d) ==
  {i \in 1..NRows(d) : \E j \in 1..NRows(d) : j # i /\ d.rows[j] = d.rows[i]}

\* C7: check_duplicates reports under 'Exact Duplicate Rows' exactly the
\* rows for which an identical other row exists; the count of its message is
\* their number, the number of lignes and count_exact_duplicates'
\* rows_involved; the table is not modified.
C7_DuplicatesReported ==
  Returned("check_duplicates") =>
    /\ DOMAIN LignesOf(last.ret) = {ToString(i - 1) : i \in RowsWithTwin(loaded)}
    /\ RowsWithTwin(loaded) = {} => last.ret = Return(<<>>, <<>>)
    /\ RowsWithTwin(loaded) # {} =>
         /\ Len(last.ret.messages) = 1 /\ Len(last.ret.issues) = 1
         /\ last.ret.issues[1].type_erreur = "Exact Duplicate Rows"
         /\ last.ret.messages[1].count = Cardinality(RowsWithTwin(loaded))
         /\ last.ret.messages[1].count = Cardinality(DOMAIN LignesOf(last.ret))
         /\ last.ret.messages[1].count = count_exact_duplicates(loaded).rows_involved
    /\ df = loaded

C7_Witness ==
  /\ Returned("check_duplicates")
  /\ NRows(loaded) = 3
  /\ DOMAIN LignesOf(last.ret) = {"0", "2"}

\* the rows an issue marks for deletion, and the table once they are deleted
MarkedForDeletion(d, lignes) ==
  {i \in 1..NRows(d) :
     ToString(i - 1) \in DOMAIN lignes /\ lignes[ToString(i - 1)].correction = None}

\* C8: the rows the 'Exact Duplicate Rows' issue marks for deletion are only
\* the later occurrences of each duplicated row, so that applying the
\* corrections leaves exactly one copy of every duplicated row.
C8_KeepsFirstOccurrence ==
  Returned("check_duplicates") =>
    LET marked == MarkedForDeletion(loaded, LignesOf(last.ret))
    IN /\ \A i \in marked : \E j \in 1..(i - 1) : loaded.rows[j] = loaded.rows[i]
       /\ \A i \in RowsWithTwin(loaded) :
            Cardinality({j \in 1..NRows(loaded) \ marked :
                           loaded.rows[j] = loaded.rows[i]}) = 1

\* a text with every whitespace run collapsed to one space
RECURSIVE CollapseRuns(_)
CollapseRuns(s) ==
  IF Len(s) = 0 THEN <<>>
  ELSE LET c == s[Len(s)]
           before == SubSeq(s, 1, Len(s) - 1)
       IN IF c \notin Whitespace THEN Append(CollapseRuns(before), c)
          ELSE IF Len(before) > 0 /\ before[Len(before)] \in Whitespace
               THEN CollapseRuns(before)
               ELSE Append(CollapseRuns(before), " ")

\* a text without its leading and trailing whitespace
Trimmed(s) ==
  IF IsBlank(s) THEN <<>>
  ELSE LET lo == CHOOSE i \in 1..Len(s) :
                   s[i] \notin Whitespace /\ \A k \in 1..(i - 1) : s[k] \in Whitespace
           hi == CHOOSE j \in 1..Len(s) :
                   s[j] \notin Whitespace /\ \A k \in (j + 1)..Len(s) : s[k] \in Whitespace
       IN SubSeq(s, lo, hi)

\* leading/trailing whitespace removed, internal runs collapsed to one space
WsNormalForm(s) == CollapseRuns(Trimmed(s))

\* the table with the corrections of an issue's lignes written into it
ApplyCorrections(d, lignes) ==
  [d EXCEPT !.rows =
     [i \in 1..NRows(d) |->
        IF ToString(i - 1) \in DOMAIN lignes
        THEN [c \in d.columns |->
                IF c \in DOMAIN lignes[ToString(i - 1)].correction
                THEN lignes[ToString(i - 1)].correction[c] ELSE d.rows[i][c]]
        ELSE d.rows[i]]]

TextRows(d) ==
  IF "Product" \notin d.columns THEN {}
  ELSE {i \in 1..NRows(d) : d.rows[i]["Product"].kind = "str"}

\* C9: check_product_whitespace reports a text Product iff it differs from
\* its whitespace normal form, proposes that normal form, and is idempotent:
\* on the table with the corrections applied it reports no row.
C9_WhitespaceNormalised ==
  Returned("check_product_whitespace") =>
    LET lignes == LignesOf(last.ret)
    IN /\ DOMAIN lignes =
            {ToString(i - 1) : i \in {j \in TextRows(loaded) :
               loaded.rows[j]["Product"].v # WsNormalForm(loaded.rows[j]["Product"].v)}}
       /\ \A i \in TextRows(loaded) :
            ToString(i - 1) \in DOMAIN lignes =>
              /\ lignes[ToString(i - 1)].default["Product"] = loaded.rows[i]["Product"]
              /\ lignes[ToString(i - 1)].correction["Product"] =
                   Str(WsNormalForm(loaded.rows[i]["Product"].v))
       /\ check_product_whitespace(ApplyCorrections(loaded, lignes)).ret
            = Return(<<>>, <<>>)

C9_Witness ==
  /\ Returned("check_product_whitespace")
  /\ last.ret.issues # <<>>
  /\ loaded.rows[1]["Product"] = Str(<<"a", " ", "\t", "a">>)
  /\ LignesOf(last.ret)["0"].correction["Product"] = Str(<<"a", " ", "a">>)

\* a text whose whitespace normal form starts with 'pharmax' in any case
InPharmaxFamily(x) ==
  LET n == WsNormalForm(x.v)
  IN Len(n) >= 7 /\ \A k \in 1..7 : LowerChar(n[k]) = LowerChar(Pharmax[k])

SupplierRows(d) ==
  IF "OrderList" \notin d.columns THEN {}
  ELSE {i \in 1..NRows(d) : ~isna(d.rows[i]["OrderList"])}

ReportedCount(ret) == IF ret.messages = <<>> THEN 0 ELSE ret.messages[1].count

\* C10 as stated: every non-null OrderList value that is not exactly the
\* text 'Pharmax' and whose normalised lowercase form starts with 'pharmax'
\* is reported with correction 'Pharmax', the exact text 'Pharmax' is never
\* reported, and the reported count is count_pharmax_variations' variations.
C10_AsStated ==
  Returned("check_supplier_variations") =>
    LET lignes == LignesOf(last.ret)
    IN /\ \A i \in SupplierRows(loaded) :
            LET x == loaded.rows[i]["OrderList"]
            IN /\ (x # Str(Pharmax) /\ InPharmaxFamily(x)) =>
                    /\ ToString(i - 1) \in DOMAIN lignes
                    /\ lignes[ToString(i - 1)].correction["Supplier"] = Str(Pharmax)
               /\ x = Str(Pharmax) => ToString(i - 1) \notin DOMAIN lignes
       /\ ReportedCount(last.ret) = count_pharmax_variations(loaded).variations

\* C10 (amended): a non-null OrderList value is reported, with correction
\* 'Pharmax', iff its whitespace normal form starts with 'pharmax' in any
\* case and is not 'Pharmax'; a value whose normal form is 'Pharmax' (the
\* exact text, or the text with whitespace around it) is never reported; on
\* a table with an OrderList column the reported count is
\* count_pharmax_variations' variations.
C10_NormalisedVariants ==
  Returned("check_supplier_variations") =>
    LET lignes == LignesOf(last.ret)
        variants == {i \in SupplierRows(loaded) :
                       /\ InPharmaxFamily(loaded.rows[i]["OrderList"])
                       /\ WsNormalForm(loaded.rows[i]["OrderList"].v) # Pharmax}
    IN /\ DOMAIN lignes = {ToString(i - 1) : i \in variants}
       /\ \A i \in variants :
            /\ lignes[ToString(i - 1)].correction["Supplier"] = Str(Pharmax)
            /\ lignes[ToString(i - 1)].default["Supplier"] = loaded.rows[i]["OrderList"]
       /\ ReportedCount(last.ret) = Cardinality(variants)
       /\ "OrderList" \in loaded.columns =>
            ReportedCount(last.ret) = count_pharmax_variations(loaded).variations

C10_Witness ==
  /\ Returned("check_supplier_variations")
  /\ NRows(loaded) = 2
  /\ "OrderList" \in loaded.columns
  /\ loaded.rows[1]["OrderList"] = Str(Pharmax \o <<" ">>)
  /\ loaded.rows[2]["OrderList"] = Str(Pharmax \o <<" ", " ", "L", "t", "d">>)
  /\ DOMAIN LignesOf(last.ret) = {"1"}

\* the non-null departments product p appears with in table d
DeptsOf(d, p) ==
  {d.rows[i]["Dept Fullname"] :
     i \in {j \in 1..NRows(d) : d.rows[j]["Product"] = Str(p)
                                 /\ d.rows[j]["Dept Fullname"].kind # "nan"}}

\* the non-null products that appear with two or more distinct departments
DriftingProducts(d) ==
  IF "Product" \notin d.columns \/ "Dept Fullname" \notin d.columns THEN {}
  ELSE {p \in {d.rows[i]["Product"].v :
                 i \in {j \in 1..NRows(d) : d.rows[j]["Product"].kind = "str"}} :
          Cardinality(DeptsOf(d, p)) >= 2}

\* l lists the texts of the set S once each, in ascending order
IsSortedListOf(l, S) ==
  /\ Len(l) = Cardinality(S)
  /\ {l[k] : k \in 1..Len(l)} = S
  /\ \A k \in 1..(Len(l) - 1) : StrLess(l[k], l[k + 1])

\* C11: check_category_drifts returns exactly one 'Category Drift' issue for
\* each non-null Product that has two or more distinct non-null departments
\* and none for any other product; the lignes of that issue are the rows of
\* the product with a non-null department, each with default = its own
\* department and correction = the sorted list of the product's departments.
C11_OneIssuePerDriftingProduct ==
  Returned("check_category_drifts") =>
    LET issues == last.ret.issues
        drifting == DriftingProducts(loaded)
    IN /\ Len(issues) = Cardinality(drifting)
       /\ Len(last.ret.messages) = Len(issues)
       /\ \A k \in 1..Len(issues) : issues[k].type_erreur = "Category Drift"
       /\ \A p \in drifting :
            \E k \in 1..Len(issues) :
               /\ issues[k].texte_erreur.subject = p
               /\ DOMAIN issues[k].lignes =
                    {ToString(i - 1) :
                       i \in {j \in 1..NRows(loaded) :
                                /\ loaded.rows[j]["Product"] = Str(p)
                                /\ loaded.rows[j]["Dept Fullname"].kind # "nan"}}
               /\ \A i \in 1..NRows(loaded) :
                    ToString(i - 1) \in DOMAIN issues[k].lignes =>
                      LET e == issues[k].lignes[ToString(i - 1)]
                      IN /\ e.default["Dept Fullname"] = loaded.rows[i]["Dept Fullname"]
                         /\ e.correction["Dept Fullname"].kind = "list"
                         /\ IsSortedListOf(e.correction["Dept Fullname"].v,
                                           {x.v : x \in DeptsOf(loaded, p)})

C11_Witness ==
  /\ Returned("check_category_drifts")
  /\ NRows(loaded) = 4
  /\ Len(last.ret.issues) = 1
  /\ loaded.rows[1]["Product"] = Str(<<"b">>)
  /\ loaded.rows[1]["Dept Fullname"] = Str(<<"O", "T", "C">>)
  /\ loaded.rows[3]["Dept Fullname"] = NaN
  /\ DOMAIN last.ret.issues[1].lignes = {"0", "3"}
  /\ last.ret.issues[1].lignes["0"].correction["Dept Fullname"]
       = PyList(<<<<"F", "l", "u">>, <<"O", "T", "C">>>>)

\* the table has a Sale Date column and every cell of it parses or is empty
DatesParse(d) ==
  "Sale Date" \in d.columns /\ \A i \in 1..NRows(d) : d.rows[i]["Sale Date"].kind # "str"

\* the pairs the near-duplicate functions count on table d
CountedPairs(d) ==
  IF ~DatesParse(d) THEN <<>>
  ELSE NearDupePairs(SetColumn(d, "Sale Date",
                               [i \in 1..NRows(d) |-> to_datetime(d.rows[i]["Sale Date"])]))

\* rows i and j are identical on all columns except Sale Date and their Sale
\* Dates are times at most one second apart
NearDuplicates(d, i, j) ==
  /\ \A c \in d.columns \ {"Sale Date"} : d.rows[i][c] = d.rows[j][c]
  /\ d.rows[i]["Sale Date"].kind = "date"
  /\ d.rows[j]["Sale Date"].kind = "date"
  /\ d.rows[i]["Sale Date"].v - d.rows[j]["Sale Date"].v <= TicksPerSecond
  /\ d.rows[j]["Sale Date"].v - d.rows[i]["Sale Date"].v <= TicksPerSecond

\* C12: every pair counted by check_near_duplicate_rows and by
\* count_near_duplicates is made of two distinct rows that are identical on
\* all columns except Sale Date and whose Sale Dates differ by at most one
\* second, and no pair is counted twice; the count reported is the number of
\* these pairs.
C12_CountedPairsAreNearDuplicates ==
  (last.fn \in {"check_near_duplicate_rows", "count_near_duplicates"}
   /\ ~Raised(last.ret)) =>
    LET pairs == CountedPairs(loaded)
    IN /\ \A k \in 1..Len(pairs) :
            /\ pairs[k][1] # pairs[k][2]
            /\ NearDuplicates(loaded, pairs[k][1] + 1, pairs[k][2] + 1)
       /\ \A k, l \in 1..Len(pairs) :
            k # l => {pairs[k][1], pairs[k][2]} # {pairs[l][1], pairs[l][2]}
       /\ last.fn = "check_near_duplicate_rows" => ReportedCount(last.ret) = Len(pairs)
       /\ last.fn = "count_near_duplicates" => last.ret.pairs = Len(pairs)

C12_Witness ==
  /\ Returned("check_near_duplicate_rows")
  /\ NRows(loaded) = 3
  /\ loaded.columns = {"Barcode", "Sale Date"}
  /\ loaded.rows[1] = ("Barcode" :> NaN) @@ ("Sale Date" :> DateStr(3))
  /\ loaded.rows[2] = ("Barcode" :> NaN) @@ ("Sale Date" :> DateStr(0))
  /\ loaded.rows[3] = ("Barcode" :> NaN) @@ ("Sale Date" :> DateStr(2))
  /\ ReportedCount(last.ret) = 2

\* C13: all rows participating in a near-duplicate pair appear in lignes:
\* on a table whose Sale Date column parses, any two rows, adjacent in date
\* order or not, that are identical on all columns except Sale Date and at
\* most one second apart are both entries of the 'Near-Duplicate Rows'
\* issue, each with correction None.
C13_AllNearDuplicateRowsListed ==
  (last.fn = "check_near_duplicate_rows" /\ DatesParse(loaded)) =>
    \A i, j \in 1..NRows(loaded) :
       (i # j /\ NearDuplicates(loaded, i, j)) =>
         /\ ~Raised(last.ret)
         /\ Len(last.ret.issues) = 1
         /\ last.ret.issues[1].type_erreur = "Near-Duplicate Rows"
         /\ \A r \in {i, j} :
              /\ ToString(r - 1) \in DOMAIN last.ret.issues[1].lignes
              /\ last.ret.issues[1].lignes[ToString(r - 1)].correction = None

\* the index labels reported under error type ty by a list of issues
RowsReportedUnder(issues, ty) ==
  UNION {DOMAIN issues[k].lignes :
           k \in {n \in 1..Len(issues) : issues[n].type_erreur = ty}}

\* C14: compute_anomaly_stats gives, for each error type of the issues the
\* six checks produced on the loaded table, the number of distinct rows
\* reported under that type (the sum of the sizes of lignes counts no row
\* twice), and has no entry for a type without issue.
C14_StatsCountDistinctRows ==
  last.fn = "compute_anomaly_stats" =>
    /\ all_issues = IssuesOfHealthyChecks(MainOrder, loaded)
    /\ DOMAIN last.ret = {all_issues[k].type_erreur : k \in 1..Len(all_issues)}
    /\ \A ty \in DOMAIN last.ret :
         last.ret[ty] = Cardinality(RowsReportedUnder(all_issues, ty))

C14_Witness ==
  /\ last.fn = "compute_anomaly_stats"
  /\ Cardinality({k \in 1..Len(all_issues) :
                    all_issues[k].type_erreur = "Category Drift"}) = 2
  /\ last.ret["Category Drift"] = 4

\* C15: count_missing_product_names counts the rows whose Product is NULL,
\* empty, whitespace, or the word 'null' in any capitalisation ('Null',
\* 'nULL', ...) once stripped.
C15_NullInAnyCase ==
  last.fn = "count_missing_product_names" =>
    last.ret =
      IF "Product" \notin loaded.columns THEN 0
      ELSE Cardinality({i \in 1..NRows(loaded) :
                          LET x == loaded.rows[i]["Product"]
                          IN \/ x.kind = "nan"
                             \/ /\ x.kind = "str"
                                /\ \/ IsBlank(x.v)
                                   \/ Lower(Strip(x.v)) = <<"n", "u", "l", "l">>})

\* the number of duplicate rows a script's check_duplicates reports: the
\* number in its text, none reported when it returns no text
ReportedDuplicates(texts) == IF texts = <<>> THEN 0 ELSE texts[1].count

\* C16: for the same table, check_duplicates of every detect_errors_* script
\* reports the same number of duplicate rows.
C16_ScriptsReportSameCount ==
  last.fn \in ScriptNames =>
    \A script \in ScriptNames :
       ReportedDuplicates(ScriptCheckDuplicates(script, loaded))
         = ReportedDuplicates(last.ret)

\* the strings of a text
Parts(text) == {text[k] : k \in 1..Len(text)}

\* no request is being served
Quiescent == \A t \in ThreadIds : threads[t].at = "idle"

\* C17: on every chat_with_user call that reaches the LLM, the list built
\* and sent is exactly one system message, first, whose content holds the
\* context iff excel_context is not empty, then the session's stored history
\* in stored order, as the call reads it, then the new user message.
C17_MessageListSent ==
  [][\A t \in ThreadIds :
       /\ (threads[t].at # "invoke" /\ threads'[t].at = "invoke") =>
            LET local == threads'[t]
                history == store[local.io.session_id]
                messages == local.messages
            IN /\ Len(messages) = Len(history) + 2
               /\ messages[1].type = "system"
               /\ \A k \in 2..Len(messages) : messages[k].type # "system"
               /\ messages[1].content =
                    IF local.excel_context.given /\ Len(local.excel_context.text) > 0
                    THEN <<SystemPrompt, ContextIntro>> \o local.excel_context.text
                    ELSE <<SystemPrompt>>
               /\ \A k \in 1..Len(history) : messages[k + 1] = history[k]
               /\ messages[Len(messages)].type = "human"
               /\ messages[Len(messages)].content = <<local.io.message>>
       /\ (threads[t].at = "invoke" /\ threads'[t].at # "invoke") =>
            /\ sent' = threads[t].messages
            /\ Len(calls') = Len(calls) + 1
            /\ calls'[Len(calls')].n = threads[t].n]_vars

C17_Witness ==
  /\ Quiescent
  /\ Len(calls) = 2
  /\ calls[1].excel_context = NoText
  /\ calls[1].answer # LLMError
  /\ calls[2].endpoint = "/chat_dataset"
  /\ calls[2].excel_context = Text(<<>>)
  /\ calls[2].session_id = calls[1].session_id
  /\ Len(sent) = 4
  /\ sent[1].content = <<SystemPrompt>>
  /\ sent[2].content = <<calls[1].user_message>>
  /\ sent[4].content = <<calls[2].user_message>>

\* the user message and the reply of each successful call of session s, in
\* call order
RECURSIVE Interactions(_, _)
Interactions(cs, s) ==
  IF cs = <<>> THEN <<>>
  ELSE LET c == cs[Len(cs)]
           before == Interactions(SubSeq(cs, 1, Len(cs) - 1), s)
       IN IF c.session_id = s /\ c.answer # LLMError
          THEN before \o <<[type |-> "human", content |-> <<c.user_message>>],
                           [type |-> "ai", content |-> <<c.answer>>]>>
          ELSE before

\* the chat_with_user calls on session s have returned, and none of them
\* read the history while another was in progress
Settled(s) ==
  /\ \A t \in ThreadIds : ~InChatWithUser(t, s)
  /\ \A k \in 1..Len(calls) : calls[k].session_id = s => ~calls[k].overlapped

\* C18: after chat_with_user calls on a session that did not overlap, the
\* session's stored history is, in call order, each successful call's user
\* message followed by the reply returned for it; no system message and no
\* context is ever stored, and the list sent for a call that supplies no
\* context holds nothing of the contexts of earlier calls.
C18_HistoryIsInteractions ==
  /\ \A s \in SessionIds :
       /\ Settled(s) => store[s] = Interactions(calls, s)
       /\ \A k \in 1..Len(store[s]) :
            /\ store[s][k].type \in {"human", "ai"}
            /\ ContextIntro \notin Parts(store[s][k].content)
  /\ (calls # <<>> /\ ~calls[Len(calls)].excel_context.given) =>
       \A k \in 1..Len(sent), n \in 1..(Len(calls) - 1) :
          /\ ContextIntro \notin Parts(sent[k].content)
          /\ Parts(sent[k].content) \cap Parts(calls[n].excel_context.text) = {}

C18_Witness ==
  /\ Quiescent
  /\ Len(calls) = 3
  /\ \A k \in 1..3 : ~calls[k].overlapped
  /\ calls[1].session_id = "s1" /\ calls[1].excel_context.given
  /\ calls[1].answer # LLMError
  /\ calls[2].session_id = "s2"
  /\ calls[3].session_id = "s1" /\ ~calls[3].excel_context.given
  /\ calls[3].answer # LLMError
  /\ Len(store["s1"]) = 4
  /\ Len(sent) = 4

\* C19: /chat_dataset answers 404 for a dataset_id for which no
\* /upload_and_analyze has completed, and does not answer 404 once one has
\* completed for it, whatever the accepted suffix (.csv, .xlsx, .xls).
C19_NotFoundUntilAnalyzed ==
  response.endpoint = "/chat_dataset" =>
    (response.status = 404 <=> returned[response.io.dataset_id].status # "ok")

\* a successful /upload_and_analyze returns as error report the script's
\* output, or 'SCRIPT RUNTIME ERROR:' and the error stream when the output
\* is blank and the error stream is not, and has saved it in
\* {dataset_id}_errors.txt when it responds
ReportReturnedIsSaved ==
  [][(response'.endpoint = "/upload_and_analyze" /\ response'.status = 200
      /\ response'.n # response.n) =>
       LET out == response'.io
           report == response'.body.error_report
       IN /\ report = IF IsBlank(out.stdout) /\ Len(out.stderr) > 0
                      THEN <<"SCRIPT RUNTIME ERROR:", "\n">> \o out.stderr
                      ELSE out.stdout
          /\ (out.dataset_id \o "_errors.txt") \in DOMAIN files'
          /\ files'[out.dataset_id \o "_errors.txt"] = report
          /\ returned'[out.dataset_id] = response'.body]_vars

\* C20: once an /upload_and_analyze has returned for a dataset_id, the
\* context /chat_dataset reads for that id is exactly the error report
\* returned by the most recent /upload_and_analyze of that id, it is the
\* context handed to chat_with_user and the one in the system message sent;
\* the report returned is the script's output, or 'SCRIPT RUNTIME ERROR:' and
\* the error stream when the output is blank and the error stream is not,
\* and it is saved in {dataset_id}_errors.txt before the response.
C20_ContextIsLatestReport ==
  [][/\ (response'.endpoint = "/upload_and_analyze" /\ response'.status = 200
         /\ response'.n # response.n) =>
          LET out == response'.io
              report == response'.body.error_report
          IN /\ report = IF IsBlank(out.stdout) /\ Len(out.stderr) > 0
                         THEN <<"SCRIPT RUNTIME ERROR:", "\n">> \o out.stderr
                         ELSE out.stdout
             /\ (out.dataset_id \o "_errors.txt") \in DOMAIN files'
             /\ files'[out.dataset_id \o "_errors.txt"] = report
             /\ returned'[out.dataset_id] = response'.body
     /\ \A t \in ThreadIds :
          /\ (threads[t].at = "read_text" /\ threads'[t].at # "read_text"
              /\ returned[threads[t].io.dataset_id].status = "ok") =>
               threads'[t].excel_context
                 = Text(returned[threads[t].io.dataset_id].error_report)
          /\ (threads[t].endpoint = "/chat_dataset" /\ threads[t].at = "invoke"
              /\ threads'[t].at # "invoke") =>
               LET report == threads[t].excel_context.text
               IN /\ calls'[Len(calls')].excel_context = Text(report)
                  /\ sent'[1].content =
                       <<SystemPrompt>>
                       \o (IF Len(report) > 0 THEN <<ContextIntro>> \o report
                           ELSE <<>>)]_vars

\* the file names of the model whose extension is .csv, .xls or .xlsx in
\* some case
AcceptedNames ==
  {"data.csv", "data.CSV", "data.xls", "data.XLS", "data.xlsx", "data.Xlsx"}

\* C21: an upload whose file name has another extension than .csv, .xls or
\* .xlsx (in any case) is rejected and persists nothing: /datasets and
\* /upload_and_analyze answer 400, persist_dataset_file raises ValueError,
\* and the files and directories are those of before the call.
C21_RejectedUploadPersistsNothing ==
  [][(response'.n # response.n /\ response'.io.filename \notin AcceptedNames) =>
       /\ files' = files
       /\ response'.endpoint \in {"/datasets", "/upload_and_analyze"} =>
            response'.status = 400
       /\ response'.endpoint = "persist_dataset_file" =>
            response'.body = Raise("ValueError")]_vars

C21_Witness ==
  /\ requests = 3
  /\ response.endpoint = "persist_dataset_file"
  /\ response.io.filename = "data.TXT"
  /\ Raised(response.body)
  /\ DOMAIN files = RepositoryScripts
                    \cup {"d1.csv", "dataset_1/", "dataset_1/raw.xlsx",
                          "dataset_1/metadata.json"}

\* the frames whose rows all carry different labels
UniqueIndex == \A p, q \in 1..Len(df.index) : p # q => df.index[p] # df.index[q]

\* the sample is as the utility is described: everything in order for a
\* small frame; otherwise the first k rows, the last k rows and min(k, n-2k)
\* different rows from strictly between, at most max_sample_rows rows, no row
\* twice, rows of the frame only, in the order of the index
SampleAsDescribed ==
  LET rows == last.ret.rows
      m == last.ret.max_sample_rows
      n == Len(df.index)
      k == m \div 3
      between == {x \in 1..Len(rows) : rows[x] > k /\ rows[x] <= n - k}
  IN IF n <= m THEN rows = [p \in 1..n |-> p]
     ELSE /\ Len(rows) <= m
          /\ \A x, y \in 1..Len(rows) : x # y => rows[x] # rows[y]
          /\ \A x \in 1..Len(rows) : rows[x] \in 1..n
          /\ \A p \in (1..k) \cup ((n - k + 1)..n) : \E x \in 1..Len(rows) : rows[x] = p
          /\ Cardinality(between) = (IF k < n - 2 * k THEN k ELSE n - 2 * k)
          /\ \A x \in 1..(Len(rows) - 1) : df.index[rows[x]] <= df.index[rows[x + 1]]

\* C22: smart_sample_dataframe returns every row in order when the table has
\* at most max_sample_rows rows; otherwise the first k = max_sample_rows // 3
\* rows, the last k rows and min(k, n - 2k) distinct rows from strictly
\* between them: never more than max_sample_rows rows, no row twice, only
\* rows of the input, in index order.
C22_SampleIsHeadMiddleTail ==
  last.fn = "smart_sample_dataframe" => SampleAsDescribed

\* the same on the frames whose labels are all different
C22_OnUniqueIndex ==
  (last.fn = "smart_sample_dataframe" /\ UniqueIndex) => SampleAsDescribed

C22_UniqueWitness ==
  /\ last.fn = "smart_sample_dataframe"
  /\ df.index = ReversedIndex(7)
  /\ last.ret.max_sample_rows = 6
  /\ last.ret.rows = <<7, 6, 4, 3, 2, 1>>

\* the fields EnhancedIssueModel requires
RequiredIssueFields ==
  {"id", "type", "severity", "description", "affectedColumns", "suggestedAction", "category"}

\* what the response text holds besides white space, fences and the word
\* json
Payload(text) ==
  SelectSeq(text, LAMBDA tok : ~(tok.t \in {"ws", "fence"} \/ (tok.t = "word" /\ tok.v = "json")))

\* the response is a JSON object with an 'issues' field
HasIssues(text) ==
  /\ Len(Payload(text)) = 1
  /\ Payload(text)[1].t = "doc"
  /\ Payload(text)[1].v.kind = "object"
  /\ "issues" \in DOMAIN Payload(text)[1].v.fields

\* C23: whenever _parse_analysis_response returns, the result has
\* 'completedAt' and 'issues' and every issue carries every field that
\* EnhancedIssueModel requires; fields present in the response come back
\* unchanged; a response that is not valid JSON or has no 'issues' field
\* raises ValueError.
C23_IssuesHaveRequiredFields ==
  response.endpoint = "_parse_analysis_response" =>
    LET text == response.io.response_text
    IN IF HasIssues(text)
       THEN LET given == Payload(text)[1].v.fields
                data == response.body.value
            IN /\ ~Raised(response.body)
               /\ {"completedAt", "issues"} \subseteq DOMAIN data
               /\ \A k \in DOMAIN given \ {"issues"} : data[k] = given[k]
               /\ Len(data["issues"]) = Len(given["issues"])
               /\ \A i \in 1..Len(data["issues"]) :
                    /\ RequiredIssueFields \subseteq DOMAIN data["issues"][i]
                    /\ \A f \in DOMAIN given["issues"][i] :
                         data["issues"][i][f] = given["issues"][i][f]
       ELSE response.body = Raise("ValueError")

\* the same for the three fields that are given a default, on the responses
\* that are JSON objects
C23_DefaultedFields ==
  response.endpoint = "_parse_analysis_response" =>
    LET text == response.io.response_text
    IN IF HasIssues(text)
       THEN LET given == Payload(text)[1].v.fields
                data == response.body.value
            IN /\ ~Raised(response.body)
               /\ {"completedAt", "issues"} \subseteq DOMAIN data
               /\ \A k \in DOMAIN given \ {"issues"} : data[k] = given[k]
               /\ Len(data["issues"]) = Len(given["issues"])
               /\ \A i \in 1..Len(data["issues"]) :
                    /\ {"id", "severity", "category"} \subseteq DOMAIN data["issues"][i]
                    /\ \A f \in DOMAIN given["issues"][i] :
                         data["issues"][i][f] = given["issues"][i][f]
       ELSE IF Len(Payload(text)) = 1 /\ Payload(text)[1].t = "doc"
                /\ Payload(text)[1].v.kind = "array"
            THEN response.body = Raise("TypeError")
            ELSE response.body = Raise("ValueError")

\* C24: on every table whose Product column is text,
\* count_product_whitespace_errors returns the number of rows that
\* check_product_whitespace reports under 'Product Whitespace Errors'.
C24_CounterMatchesWhitespaceCheck ==
  (last.fn = "count_product_whitespace_errors" /\ "Product" \in loaded.columns
   /\ Dtype(loaded, "Product") = "object") =>
     last.ret = Cardinality(DOMAIN LignesOf(check_product_whitespace(loaded).ret))

\* the same on the tables whose Products hold no tab
C24_WithoutTabs ==
  (last.fn = "count_product_whitespace_errors" /\ "Product" \in loaded.columns
   /\ Dtype(loaded, "Product") = "object"
   /\ \A i \in TextRows(loaded) :
        \A k \in 1..Len(loaded.rows[i]["Product"].v) :
           loaded.rows[i]["Product"].v[k] # "\t") =>
     last.ret = Cardinality(DOMAIN LignesOf(check_product_whitespace(loaded).ret))

\* C25: count_near_duplicates agrees with check_near_duplicate_rows on every
\* table: it raises on the tables on which the check raises, and otherwise
\* 'pairs' is the number of pairs the check's message announces and
\* 'rows_involved' the number of entries of the issue's 'lignes'; both give
\* zero and nothing when 'Sale Date' is absent or cannot be parsed.
C25_CounterMatchesNearDuplicateCheck ==
  last.fn = "count_near_duplicates" =>
    LET checked == check_near_duplicate_rows(loaded).ret
    IN IF Raised(last.ret) THEN Raised(checked)
       ELSE /\ ~Raised(checked)
            /\ last.ret.pairs = ReportedCount(checked)
            /\ last.ret.rows_involved = Cardinality(DOMAIN LignesOf(checked))
            /\ ("Sale Date" \notin loaded.columns \/ ~DatesParse(loaded)) =>
                 /\ last.ret = [pairs |-> 0, rows_involved |-> 0]
                 /\ checked = Return(<<>>, <<>>)

C25_Witness ==
  /\ last.fn = "count_near_duplicates"
  /\ ~Raised(last.ret)
  /\ last.ret.pairs = 2
  /\ last.ret.rows_involved = 3

\* the request of slot t is answered in this step with an error
Fails(t) ==
  /\ threads[t].at # "idle"
  /\ threads'[t].at = "idle"
  /\ response'.n = threads[t].n
  /\ response'.status # 200

\* a failed chat_with_user call leaves the history of every session as it
\* was: with the LLM not initialised the call fails without reaching the
\* LLM, and when the LLM invocation raises the call has stored nothing
FailedCallsStoreNothing ==
  [][/\ (LLM = "None" /\ response'.n # response.n) =>
          /\ response'.status # 200
          /\ store' = store /\ sent' = sent /\ calls' = calls
     /\ \A t \in ThreadIds :
          Fails(t) =>
            /\ store' = store
            /\ \A k \in 1..Len(store[threads[t].io.session_id]) :
                 store[threads[t].io.session_id][k].content
                   # <<threads[t].io.message>>
     /\ (Len(calls') > Len(calls) /\ calls'[Len(calls')].answer = LLMError) =>
          /\ response'.status = 500
          /\ store' = store]_vars

\* C26: a failed chat_with_user call leaves the history of every session as
\* it was: with the LLM not initialised the call fails without reaching the
\* LLM, and when the LLM invocation raises nothing is stored; no history
\* ever holds a user message without its AI reply.
C26_NoUserMessageWithoutReply ==
  \A s \in SessionIds :
     \A k \in 1..Len(store[s]) :
        store[s][k].type = "human" =>
          /\ k < Len(store[s])
          /\ store[s][k + 1].type = "ai"

\* the reply at place k of the history answers the user message before it
Answers(s, k) ==
  /\ store[s][k - 1].type = "human"
  /\ store[s][k].type = "ai"
  /\ \E c \in 1..Len(calls) :
       /\ calls[c].session_id = s
       /\ <<calls[c].answer>> = store[s][k].content
       /\ <<calls[c].user_message>> = store[s][k - 1].content

\* C27: whatever the interleaving of concurrent chat_with_user calls on one
\* session, once they have returned the session's history alternates user
\* message and AI reply, each reply right after the user message it answers.
C27_HistoryAlternatesUnderConcurrency ==
  Quiescent =>
    \A s \in SessionIds :
      /\ Len(store[s]) % 2 = 0
      /\ \A k \in 1..Len(store[s]) : k % 2 = 0 => Answers(s, k)

\* the rows whose Product is a text of white space and nothing else
WhitespaceOnlyRows(d) ==
  IF "Product" \notin d.columns THEN {}
  ELSE {i \in 1..NRows(d) :
          LET x == d.rows[i]["Product"]
          IN x.kind = "str" /\ Len(x.v) > 0 /\ IsBlank(x.v)}

\* the issues of a type in the JSON file
Written(ty) ==
  {k \in 1..Len(json_file.content) : json_file.content[k].type_erreur = ty}

\* C28: no conflict resolution between overlapping corrections: when main
\* has written its JSON file, a row whose Product is whitespace-only is in it
\* under 'Missing Product Names', with as correction a Product imputed from
\* its Barcode or None, and under 'Product Whitespace Errors', with the empty
\* string as correction, both as the checks returned them.
C28_OverlappingCorrectionsBothWritten ==
  (pc = "done" /\ json_file.written) =>
    \A i \in WhitespaceOnlyRows(loaded) :
      LET key == ToString(i - 1)
          missing == check_missing_values(loaded).ret.issues
          whitespace == check_product_whitespace(loaded).ret.issues
      IN /\ \E k \in Written("Missing Product Names") :
              LET issue == json_file.content[k]
              IN /\ issue = missing[1]
                 /\ key \in DOMAIN issue.lignes
                 /\ DOMAIN issue.lignes[key].correction = {"Product"}
                 /\ LET proposed == issue.lignes[key].correction["Product"]
                    IN \/ proposed = None
                       \/ /\ proposed.kind = "str"
                          /\ "Barcode" \in loaded.columns
                          /\ \E j \in 1..NRows(loaded) :
                               /\ j # i
                               /\ loaded.rows[j]["Barcode"] = loaded.rows[i]["Barcode"]
         /\ \E k \in Written("Product Whitespace Errors") :
              LET issue == json_file.content[k]
              IN /\ issue = whitespace[1]
                 /\ key \in DOMAIN issue.lignes
                 /\ issue.lignes[key].default = ("Product" :> loaded.rows[i]["Product"])
                 /\ issue.lignes[key].correction = ("Product" :> Str(<<>>))

C28_Witness ==
  /\ pc = "done"
  /\ json_file.written
  /\ 1 \in WhitespaceOnlyRows(loaded)
  /\ NRows(loaded) = 2
  /\ \E k \in Written("Missing Product Names") :
       json_file.content[k].lignes["0"].correction = ("Product" :> Str(<<"a">>))
  /\ \E k \in Written("Product Whitespace Errors") :
       json_file.content[k].lignes["0"].correction = ("Product" :> Str(<<>>))

\* the index labels check_duplicates reports on table d for rows whose Sale
\* Date is a text that parses as a date
DatedExactDuplicates(d) ==
  IF "Sale Date" \notin d.columns THEN {}
  ELSE {key \in DOMAIN LignesOf(check_duplicates(d).ret) :
          \E i \in 1..NRows(d) : ToString(i - 1) = key /\ d.rows[i]["Sale Date"].kind = "date"}

\* C29: every row reported under 'Exact Duplicate Rows' whose Sale Date is
\* present and parseable is also reported under 'Near-Duplicate Rows' by
\* check_near_duplicate_rows on the same table.
C29_ExactDuplicatesAreNearDuplicates ==
  last.fn = "check_near_duplicate_rows" =>
    \A key \in DatedExactDuplicates(loaded) :
       /\ ~Raised(last.ret)
       /\ key \in DOMAIN LignesOf(last.ret)

\* the same on the tables where every Sale Date parses or is empty and there
\* is a column besides Sale Date
C29_WhenAllDatesParse ==
  (last.fn = "check_near_duplicate_rows" /\ DatesParse(loaded)
   /\ loaded.columns # {"Sale Date"}) =>
    \A key \in DatedExactDuplicates(loaded) :
       /\ ~Raised(last.ret)
       /\ key \in DOMAIN LignesOf(last.ret)

\* a cell of an entry equals the cell of the table: the same value, or both
\* missing (None and NaN)
HoldsValue(x, cell) == x = cell \/ (isna(x) /\ isna(cell))

\* an entry of 'lignes' under key describes a row of table d: the key is the
\* string of a row label, default maps columns of d to the row's values, and
\* correction is None or maps columns of d to values
DescribesRow(d, key, entry) ==
  \E i \in 1..NRows(d) :
     /\ key = ToString(i - 1)
     /\ DOMAIN entry.default \subseteq d.columns
     /\ \A c \in DOMAIN entry.default : HoldsValue(entry.default[c], d.rows[i][c])
     /\ \/ entry.correction = None
        \/ DOMAIN entry.correction \subseteq d.columns

LignesDescribeTable(ret, d) ==
  \A k \in 1..Len(ret.issues) :
     \A key \in DOMAIN ret.issues[k].lignes :
        DescribesRow(d, key, ret.issues[k].lignes[key])

\* C30: in every issue produced by the six checks, each entry of 'lignes' is
\* keyed by the string of a row index of the table, its 'default' maps column
\* names of the table to the values the row holds, and its 'correction' is
\* None or maps column names of the table to proposed values.
C30_LignesDescribeTheTable ==
  (last.fn \in {MainOrder[k] : k \in 1..Len(MainOrder)} /\ ~Raised(last.ret)) =>
    LignesDescribeTable(last.ret, loaded)

\* the same for the four checks other than check_supplier_variations and
\* check_missing_values
C30_OtherFourChecks ==
  (last.fn \in {"check_duplicates", "check_product_whitespace",
                "check_category_drifts", "check_near_duplicate_rows"}
   /\ ~Raised(last.ret)) =>
    LignesDescribeTable(last.ret, loaded)

\* check_missing_values alone
C30_MissingValuesDefault ==
  Returned("check_missing_values") => LignesDescribeTable(last.ret, loaded)

====
